---- MODULE Spec2Model ----
(***************************************************************************)
(* Model of the stock-data aggregation service: the expiring cache of     *)
(* StockService and its keys, symbol validation, the single-symbol        *)
(* operations, the fan-out (batch) operations of StockService and         *)
(* MarketService, the thread-pool executors, the REST handlers in front   *)
(* of them, and the holdings merge of BrokerService.                      *)
(*                                                                         *)
(* Time is a discrete clock `now`.  The settings max_workers,             *)
(* timeout_seconds and cache_timeout are pydantic BaseSettings fields     *)
(* (overridable from the environment); the model runs a configuration     *)
(* with small values of them.                                             *)
(***************************************************************************)
EXTENDS Integers, Sequences, FiniteSets, TLC

VARIABLES
    now,        \* the clock read by datetime.now() and by the event loop
    cache,      \* cache[s]: the dict self.cache of StockService instance s
    nInst,      \* number of StockService instances constructed so far
    inv,        \* inv[i]: the i-th invocation of a service operation: where it
                \* stands (pc), how it was made (via "rest" or "service"), its
                \* operation, arguments (args), validated symbols (syms) and
                \* service object, whether it looked into the cache
                \* (looked), when it was awaited
                \* and done, whether the cache served it, its result, the HTTP
                \* status answered, and (history) the invocations that were
                \* done when it started
    unit,       \* unit[i]: the units of work invocation i handed to the executor
    stored,     \* history: stored[k] = what the last _set_cache of key k stored
    lastGet,    \* history: the _get_from_cache call made by the last step
    call        \* the call of a function examined on its own: its arguments
                \* and what it returned

vars == <<now, cache, nInst, inv, unit, stored, lastGet, call>>

----------------------------------------------------------------------------
(* Bounds of the model *)

MaxTime == 3
MaxBatch == 3
MaxLen == 3
MaxParams == 2
MaxRows == 2

(* Settings (config/settings.py) *)

max_workers == 2
timeout_seconds == 2
cache_timeout == 2

Invocations == {1, 2}

----------------------------------------------------------------------------
(* Values *)

None == [tag |-> "None"]

\* A Python str is the sequence of its characters.
AAPL == <<"A", "A", "P", "L">>
MSFT == <<"M", "S", "F", "T">>
GOOGL == <<"G", "O", "O", "G", "L">>
GSPC == <<"^", "G", "S", "P", "C">>
DJI == <<"^", "D", "J", "I">>
IXIC == <<"^", "I", "X", "I", "C">>

Symbols == {AAPL, MSFT}

DataTypes ==
    {"price", "company_info", "history", "financials", "dividends", "splits",
     "recommendations"}

----------------------------------------------------------------------------
(* The expiring cache: StockService._get_cache_key, _get_from_cache,       *)
(* _set_cache.  A cache is a function from the stored keys to             *)
(* [data, timestamp], like the Python dict.                               *)

\* **kwargs is a dict in the order the caller wrote the keyword arguments: the
\* sequence of its (name, value) items, the names distinct.

\* Parameter names in the order of Python's string comparison
ParamNames == <<"interval", "period", "range">>

name_rank(k) == CHOOSE n \in DOMAIN ParamNames : ParamNames[n] = k

\* (k1, v1) < (k2, v2) for two items of one dict (their names differ)
item_lt(a, b) == name_rank(a[1]) < name_rank(b[1])

RECURSIVE insert_item(_, _)
insert_item(x, s) ==
    IF s = << >> THEN <<x>>
    ELSE IF item_lt(x, Head(s)) THEN <<x>> \o s
    ELSE <<Head(s)>> \o insert_item(x, Tail(s))

\* Faulty variant of SortedItems: the items in the caller's order
UnsortedItems(kwargs) == kwargs

RECURSIVE SortedItems(_)
\* sorted(kwargs.items())
SortedItems(kwargs) ==
    IF kwargs = << >> THEN << >>
    ELSE insert_item(kwargs[Len(kwargs)],
                     SortedItems(SubSeq(kwargs, 1, Len(kwargs) - 1)))

\* key_parts = [symbol, data_type] + [f"{k}:{v}" ...], joined with ":"; the
\* joined string is represented by the tuple of its parts, a part f"{k}:{v}"
\* by the pair <<k, v>>.
get_cache_key(symbol, data_type, kwargs) ==
    <<symbol, data_type>> \o SortedItems(kwargs)

NoKwargs == << >>

\* Faulty variant of _get_from_cache: the expiry test written <= instead of <
get_from_cache_le(c, key, t) ==
    IF key \in DOMAIN c
    THEN IF t - c[key].timestamp <= cache_timeout
         THEN [data |-> c[key].data, cache |-> c]
         ELSE [data |-> None, cache |-> [k \in DOMAIN c \ {key} |-> c[k]]]
    ELSE [data |-> None, cache |-> c]

\* _get_from_cache at time t: the returned data (None on a miss) and the cache
\* it leaves behind (an expired entry is deleted).
get_from_cache(c, key, t) ==
    IF key \in DOMAIN c
    THEN IF t - c[key].timestamp < cache_timeout
         THEN [data |-> c[key].data, cache |-> c]
         ELSE [data |-> None, cache |-> [k \in DOMAIN c \ {key} |-> c[k]]]
    ELSE [data |-> None, cache |-> c]

\* Faulty variant of _set_cache: an entry already present is kept
set_cache_if_absent(c, key, data, t) ==
    IF key \in DOMAIN c THEN c
    ELSE [k \in DOMAIN c \cup {key} |->
            IF k = key THEN [data |-> data, timestamp |-> t] ELSE c[k]]

\* _set_cache at time t
set_cache(c, key, data, t) ==
    [k \in DOMAIN c \cup {key} |->
        IF k = key THEN [data |-> data, timestamp |-> t] ELSE c[k]]

EmptyCache == [k \in {} |-> None]

\* Python truthiness of a cached value (`if cached_data:`): None is false;
\* a pydantic model instance and a non-empty dict are true.
Truthy(data) == data # None

----------------------------------------------------------------------------
(* Specification SpecCache: the cache of one StockService instance driven *)
(* directly by its two methods.                                           *)

CacheKeys ==
    {get_cache_key(AAPL, "price", NoKwargs),
     get_cache_key(AAPL, "history",
                   << <<"period", "1mo">>, <<"interval", "1d">> >>)}

CacheValues == {[tag |-> "payload", ver |-> v] : v \in {1, 2}}

NoGet == [tag |-> "none"]
NoCall == [tag |-> "none"]

IdleInv ==
    [i \in Invocations |->
        [pc |-> "idle", via |-> "", op |-> "", args |-> << >>, syms |-> << >>,
         inst |-> 0, looked |-> FALSE, awaitedAt |-> 0, doneAt |-> 0,
         hit |-> FALSE, result |-> None, http |-> 0, body |-> {}, after |-> {}]]
NoUnits == [i \in Invocations |-> << >>]

InitCache ==
    /\ now = 0
    /\ cache = [s \in {1} |-> EmptyCache]
    /\ nInst = 1
    /\ inv = IdleInv
    /\ unit = NoUnits
    /\ stored = EmptyCache
    /\ lastGet = NoGet
    /\ call = NoCall

CacheSet(key, data) ==
    /\ cache' = [cache EXCEPT ![1] = set_cache(cache[1], key, data, now)]
    /\ stored' = set_cache(stored, key, data, now)
    /\ lastGet' = NoGet
    /\ UNCHANGED <<now, nInst, inv, unit, call>>

CacheGet(key) ==
    LET r == get_from_cache(cache[1], key, now) IN
    /\ cache' = [cache EXCEPT ![1] = r.cache]
    /\ lastGet' = [tag |-> "get", key |-> key, t |-> now, ret |-> r.data]
    /\ UNCHANGED <<now, nInst, inv, unit, stored, call>>

CacheTick ==
    /\ now < MaxTime
    /\ now' = now + 1
    /\ lastGet' = NoGet
    /\ UNCHANGED <<cache, nInst, inv, unit, stored, call>>

NextCache ==
    \/ \E key \in CacheKeys, data \in CacheValues : CacheSet(key, data)
    \/ \E key \in CacheKeys : CacheGet(key)
    \/ CacheTick

SpecCache == InitCache /\ [][NextCache]_vars

\* C1: a value stored by _set_cache at time t0 is returned unchanged by every
\* _get_from_cache at a time t with t - t0 < cache_timeout; a _get_from_cache
\* at a time t with t - t0 >= cache_timeout returns absent and leaves the key
\* removed from the store.
C1_CacheTtl ==
    (lastGet.tag = "get" /\ lastGet.key \in DOMAIN stored) =>
        LET s == stored[lastGet.key] IN
        IF lastGet.t - s.timestamp < cache_timeout
        THEN /\ lastGet.ret = s.data
             /\ lastGet.key \in DOMAIN cache[1]
             /\ cache[1][lastGet.key] = s
        ELSE /\ lastGet.ret = None
             /\ lastGet.key \notin DOMAIN cache[1]

\* C1 witness: a read at exactly t0 + cache_timeout of a key that an earlier
\* read (at t0 + cache_timeout - 1) would still have returned.
C1_Witness ==
    /\ lastGet.tag = "get"
    /\ lastGet.key \in DOMAIN stored
    /\ lastGet.t - stored[lastGet.key].timestamp = cache_timeout
    /\ lastGet.ret = None
    /\ DOMAIN cache[1] # {}

----------------------------------------------------------------------------
(* Exceptions (utils/exceptions.py) and what a unit of work hands back.    *)

\* StockAPIException subclasses and their status_code
StockAPIExceptions ==
    {"InvalidSymbolException", "DataNotFoundException", "RateLimitException",
     "TimeoutException"}

status_code(exc) ==
    CASE exc = "InvalidSymbolException" -> 400
      [] exc = "DataNotFoundException" -> 404
      [] exc = "RateLimitException" -> 429
      [] exc = "TimeoutException" -> 408
      [] OTHER -> 500

Return(v) == [tag |-> "return", value |-> v, exc |-> ""]
Raise(e) == [tag |-> "raise", value |-> None, exc |-> e]
Pending == [tag |-> "pending", value |-> None, exc |-> ""]

----------------------------------------------------------------------------
(* utils/helpers.validate_symbol.  An argument is a Python value: its type, *)
(* and for a str its characters.                                           *)

Str(chars) == [type |-> "str", chars |-> chars]
NoneValue == [type |-> "NoneType", chars |-> << >>]

\* str.strip() without argument removes leading and trailing whitespace
Whitespace == {" "}

RECURSIVE lstrip(_)
lstrip(s) ==
    IF s # << >> /\ Head(s) \in Whitespace THEN lstrip(Tail(s)) ELSE s

RECURSIVE rstrip(_)
rstrip(s) ==
    IF s # << >> /\ s[Len(s)] \in Whitespace
    THEN rstrip(SubSeq(s, 1, Len(s) - 1)) ELSE s

strip(s) == rstrip(lstrip(s))

\* str.upper(), on the letters the model writes in lower case
LowerCase ==
    <<"a", "b", "c", "d", "e", "f", "g", "h", "i", "j", "k", "l", "m",
      "n", "o", "p", "q", "r", "s", "t", "u", "v", "w", "x", "y", "z">>
UpperCase ==
    <<"A", "B", "C", "D", "E", "F", "G", "H", "I", "J", "K", "L", "M",
      "N", "O", "P", "Q", "R", "S", "T", "U", "V", "W", "X", "Y", "Z">>

upper_char(c) ==
    IF \E n \in DOMAIN LowerCase : LowerCase[n] = c
    THEN UpperCase[CHOOSE n \in DOMAIN LowerCase : LowerCase[n] = c]
    ELSE c

upper(s) == [n \in DOMAIN s |-> upper_char(s[n])]

\* `not symbol` is true of None and of the empty str
validate_symbol(symbol) ==
    IF symbol.chars = << >> \/ symbol.type # "str"
    THEN Raise("InvalidSymbolException")
    ELSE Return(upper(strip(symbol.chars)))

\* What the data provider does to one adapter call:
\*   "ok"        it answers with data
\*   "unknown"   it reports the symbol unknown (info without a 'symbol')
\*   "empty"     it answers, with no rows for the requested window
\*   "transport" the call fails at its first request, the ticker.info read
\*               (network, parse)
\*   "broken"    ticker.info is answered, the request for the data that
\*               follows fails (network, parse)
Behaviours == {"ok", "unknown", "empty", "transport", "broken"}

\* An optional number (marketCap): << >> is None, <<n>> is n.
MarketCaps == {<< >>, <<0>>, <<1>>}

\* utils/helpers.get_ticker: every failure, the provider's "unknown" and any
\* exception of the provider call alike, leaves as InvalidSymbolException.
get_ticker(beh) ==
    IF beh \in {"unknown", "transport"}
    THEN Raise("InvalidSymbolException") ELSE Return(None)

\* StockService._fetch_stock_data(symbol, schema_required); `id` names the
\* adapter call, so that the payloads of two calls differ.
fetch_stock_data(symbol, schema_required, beh, cap, id) ==
    IF get_ticker(beh).tag = "raise" THEN get_ticker(beh)
    ELSE IF beh = "broken" THEN Raise("Exception")
    ELSE IF beh = "empty" THEN Raise("DataNotFoundException")
    ELSE IF schema_required
    THEN Return([tag |-> "StockPriceSchema", symbol |-> symbol,
                 market_cap |-> cap, fetch |-> id])
    ELSE Return([tag |-> "dict", symbol |-> symbol, market_cap |-> cap,
                 fetch |-> id])

\* StockService._safe_fetch_stock_data: an exception becomes a dict with 'error'
safe_fetch_stock_data(symbol, beh, cap, id) ==
    LET r == fetch_stock_data(symbol, FALSE, beh, cap, id) IN
    IF r.tag = "raise"
    THEN Return([tag |-> "dict", symbol |-> symbol, error |-> r.exc])
    ELSE r

\* StockService._fetch_company_info: never raises; a failing provider call
\* becomes a CompanyInfoSchema whose business_summary carries the error.  The
\* provider's "unknown" is an info mapping without the fields, "empty" does
\* not concern it (no price window is read), and ticker.info is the only
\* request it makes.
fetch_company_info(symbol, beh, id) ==
    IF beh \in {"transport", "broken"}
    THEN Return([tag |-> "CompanyInfoSchema", symbol |-> symbol, name |-> "",
                 business_summary |-> "Error", fetch |-> id])
    ELSE Return([tag |-> "CompanyInfoSchema", symbol |-> symbol,
                 name |-> IF beh = "unknown" THEN "" ELSE "name",
                 business_summary |-> "", fetch |-> id])

\* result.model_dump(): the schema as a dict
model_dump(schema) == [schema EXCEPT !.tag = "dict"]

\* CompanyInfoSchema(**d)
CompanyInfoSchema(d) == [d EXCEPT !.tag = "CompanyInfoSchema"]

\* The _fetch_history / _fetch_financials / _fetch_dividends / _fetch_splits /
\* _fetch_recommendations closures: get_ticker, then the provider data; only
\* _fetch_history raises DataNotFoundException on an empty frame, the others
\* build a schema from the empty data.
fetch_other(data_type, symbol, beh, id) ==
    IF get_ticker(beh).tag = "raise" THEN get_ticker(beh)
    ELSE IF beh = "broken" THEN Raise("Exception")
    ELSE IF beh = "empty" /\ data_type = "history"
    THEN Raise("DataNotFoundException")
    ELSE Return([tag |-> "Schema", kind |-> data_type, symbol |-> symbol,
                 rows |-> IF beh = "empty" THEN 0 ELSE 1, fetch |-> id])

\* The unit of work a single-symbol operation submits
single_unit(data_type, symbol, beh, cap, id) ==
    CASE data_type = "price" -> fetch_stock_data(symbol, TRUE, beh, cap, id)
      [] data_type = "company_info" -> fetch_company_info(symbol, beh, id)
      [] OTHER -> fetch_other(data_type, symbol, beh, id)

\* MarketService.get_trending_stocks._fetch_trending_stock: None when the
\* frame is empty and on any exception
fetch_trending_stock(symbol, beh, cap, id) ==
    IF get_ticker(beh).tag = "raise" \/ beh \in {"empty", "broken"}
    THEN Return(None)
    ELSE Return([tag |-> "dict", symbol |-> symbol, market_cap |-> cap,
                 fetch |-> id])

\* MarketService.get_market_indices._fetch_market_index: the same, and its
\* dict has no market_cap
fetch_market_index(symbol, beh, id) ==
    IF get_ticker(beh).tag = "raise" \/ beh \in {"empty", "broken"}
    THEN Return(None)
    ELSE Return([tag |-> "dict", symbol |-> symbol, fetch |-> id])

\* The keyword parameters of the cache key: get_historical_data passes
\* period and interval (the controller's defaults), the others nothing.
key_kwargs(data_type) ==
    IF data_type = "history"
    THEN << <<"period", "1mo">>, <<"interval", "1d">> >>
    ELSE NoKwargs

----------------------------------------------------------------------------
(* The executor and the awaited units of work.                            *)
(*                                                                         *)
(* unit[i][k] is the k-th unit invocation i submitted:                    *)
(*   st   "queued" (in the pool's queue), "running" (on a worker),        *)
(*        "finished" (the function returned or raised), "cancelled"       *)
(*        (taken from the queue before it started), "cached" (no unit:    *)
(*        the return_cached coroutine of get_multiple_company_info)       *)
(*   aw   the asyncio.wait_for around it: "pending", or "timeout" once    *)
(*        the timeout fired                                               *)
(*   beh  what the provider did to the call                               *)
(*   res  what the function handed back                                   *)
(*   late whether it finished more than timeout_seconds after it was      *)
(*        awaited                                                          *)

\* Faulty variant of the submission: the function is entered at once, by the
\* caller, instead of being queued for a worker
NewUnitInline ==
    [st |-> "running", aw |-> "pending", beh |-> "", res |-> Pending,
     late |-> FALSE]

NewUnit ==
    [st |-> "queued", aw |-> "pending", beh |-> "", res |-> Pending,
     late |-> FALSE]

SingleOps == DataTypes
StockBatchOps == {"multiple_stocks", "multiple_company_info"}
MarketBatchOps == {"trending", "indices"}
BatchOps == StockBatchOps \cup MarketBatchOps

\* Operations that wrap their units in asyncio.wait_for(timeout_seconds)
WaitForOps == SingleOps \cup {"multiple_company_info"}

UnitIds == UNION {{<<i, k>> : k \in DOMAIN unit[i]} : i \in Invocations}

\* Units running on the ThreadPoolExecutor of service object s
Running(s) == {id \in UnitIds : inv[id[1]].inst = s /\ unit[id[1]][id[2]].st = "running"}

\* Faulty variant of the pool: a unit whose call raised is taken up again
CanStartRetry(i, k) ==
    /\ k \in DOMAIN unit[i]
    /\ \/ unit[i][k].st = "queued"
       \/ unit[i][k].st = "finished" /\ unit[i][k].res.tag = "raise"
    /\ Cardinality(Running(inv[i].inst)) < max_workers

\* Faulty variant of the pool: a queued unit starts whatever the number of
\* running units
CanStartUnbounded(i, k) ==
    /\ k \in DOMAIN unit[i]
    /\ unit[i][k].st = "queued"

\* ThreadPoolExecutor: a queued unit starts when fewer than max_workers units
\* of its pool are running and no unit submitted before it is still queued.
CanStart(i, k) ==
    /\ k \in DOMAIN unit[i]
    /\ unit[i][k].st = "queued"
    /\ Cardinality(Running(inv[i].inst)) < max_workers
    /\ \A id \in UnitIds :
        (/\ inv[id[1]].inst = inv[i].inst
         /\ unit[id[1]][id[2]].st = "queued")
        => \/ inv[id[1]].awaitedAt > inv[i].awaitedAt
           \/ inv[id[1]].awaitedAt = inv[i].awaitedAt /\ id[1] # i
           \/ id[1] = i /\ id[2] >= k

\* asyncio.wait_for: the timeout fires when timeout_seconds have passed and
\* the unit has not handed back a result.
CanTimeout(i, k) ==
    /\ k \in DOMAIN unit[i]
    /\ inv[i].pc = "awaiting"
    /\ inv[i].op \in WaitForOps
    /\ unit[i][k].st \in {"queued", "running"}
    /\ unit[i][k].aw = "pending"
    /\ now - inv[i].awaitedAt >= timeout_seconds

\* The awaitable of unit k has completed, with a result or a timeout
Completed(u) == u.st \in {"finished", "cached"} \/ u.aw = "timeout"

\* What awaiting the unit yields
Outcome(u) == IF u.aw = "timeout" THEN Raise("asyncio.TimeoutError") ELSE u.res

\* Faulty variant of the await: the result of a unit whose wait timed out is
\* taken up when it arrives
CanDeliverLate(i) ==
    /\ inv[i].pc \in {"awaiting", "raised"}
    /\ inv[i].op \in SingleOps
    /\ unit[i] # << >>
    /\ unit[i][1].st = "finished"

\* await asyncio.wait_for(future, ...) resumes with the unit's result when
\* the unit finished before the timeout fired
CanDeliver(i) ==
    /\ inv[i].pc = "awaiting"
    /\ inv[i].op \in SingleOps
    /\ unit[i][1].st = "finished"
    /\ unit[i][1].aw = "pending"

\* Faulty variant of the gather: it hands over as soon as one awaitable has
\* completed
CanAssembleFirst(i) ==
    /\ inv[i].pc = "awaiting"
    /\ inv[i].op \in BatchOps
    /\ \E k \in DOMAIN unit[i] : Completed(unit[i][k])

\* asyncio.gather(*tasks, return_exceptions=True) completes when every
\* awaitable has completed
CanAssemble(i) ==
    /\ inv[i].pc = "awaiting"
    /\ inv[i].op \in BatchOps
    /\ \A k \in DOMAIN unit[i] : Completed(unit[i][k])

\* The event loop, and a free worker, act before the clock moves on.
Urgent ==
    \E i \in Invocations :
        \/ CanDeliver(i)
        \/ CanAssemble(i)
        \/ \E k \in DOMAIN unit[i] : CanStart(i, k) \/ CanTimeout(i, k)

UnitStart(i, k) ==
    /\ CanStart(i, k)
    /\ unit' = [unit EXCEPT ![i][k].st = "running"]
    /\ UNCHANGED <<now, cache, nInst, inv, stored, lastGet, call>>

\* The function a unit of invocation i runs (defined with the operations)
UnitResult(i, k, beh, cap) ==
    LET op == inv[i].op
        sym == inv[i].syms[k]
    IN  CASE op \in SingleOps -> single_unit(op, sym, beh, cap, <<i, k>>)
          [] op = "multiple_stocks" -> safe_fetch_stock_data(sym, beh, cap, <<i, k>>)
          [] op = "multiple_company_info" -> fetch_company_info(sym, beh, <<i, k>>)
          [] op = "trending" -> fetch_trending_stock(sym, beh, cap, <<i, k>>)
          [] op = "indices" -> fetch_market_index(sym, beh, <<i, k>>)

\* Faulty variant of the unit of work: the function stores what it fetched in
\* the cache of its service object, on the worker
UnitFinishCaching(i, k, beh, cap) ==
    /\ k \in DOMAIN unit[i]
    /\ unit[i][k].st = "running"
    /\ unit' = [unit EXCEPT ![i][k] =
                  [@ EXCEPT !.st = "finished", !.beh = beh,
                            !.res = UnitResult(i, k, beh, cap),
                            !.late = (now - inv[i].awaitedAt > timeout_seconds)]]
    /\ cache' = [cache EXCEPT ![inv[i].inst] =
                    set_cache(@, <<inv[i].syms[k], inv[i].op>>,
                              UnitResult(i, k, beh, cap), now)]
    /\ UNCHANGED <<now, nInst, inv, stored, lastGet, call>>

UnitFinish(i, k, beh, cap) ==
    /\ k \in DOMAIN unit[i]
    /\ unit[i][k].st = "running"
    /\ unit' = [unit EXCEPT ![i][k] =
                  [@ EXCEPT !.st = "finished", !.beh = beh,
                            !.res = UnitResult(i, k, beh, cap),
                            !.late = (now - inv[i].awaitedAt > timeout_seconds)]]
    /\ UNCHANGED <<now, cache, nInst, inv, stored, lastGet, call>>

\* The clock starts with the first invocation (behaviours that differ only by a
\* shift of time are the same behaviour).
Tick ==
    /\ now < MaxTime
    /\ inv[1].pc # "idle"
    /\ ~Urgent
    /\ now' = now + 1
    /\ UNCHANGED <<cache, nInst, inv, unit, stored, lastGet, call>>

----------------------------------------------------------------------------
(* Single-symbol operations of StockService: get_stock_price,             *)
(* get_company_info, get_historical_data, get_financials, get_dividends,  *)
(* get_splits, get_recommendations; and the REST handlers of              *)
(* controllers/stock_controller.py in front of them.                      *)

\* Faulty variant of the handler: every exception answers 500
rest_status_generic(via, outcome) ==
    IF via # "rest" THEN 0
    ELSE IF outcome.tag = "return" THEN 200
    ELSE 500

\* The handler's try/except: a StockAPIException answers its status_code, any
\* other exception 500; a returned payload answers 200.  0: not a REST call.
rest_status(via, outcome) ==
    IF via # "rest" THEN 0
    ELSE IF outcome.tag = "return" THEN 200
    ELSE IF outcome.exc \in StockAPIExceptions THEN status_code(outcome.exc)
    ELSE 500

\* The body main.stock_api_exception_handler answers a StockAPIException
\* that reaches the application with, as the set of its keys
stock_api_exception_handler == {"success", "message", "error_code", "timestamp"}

\* The body of the handler's answer, as the set of its top-level keys.  The
\* handler catches every exception of the operation and raises an
\* HTTPException in its place, which FastAPI answers with {"detail": ...}: no
\* StockAPIException leaves the handler.  A returned payload is the body.
rest_body(via, outcome) ==
    IF via # "rest" THEN {}
    ELSE IF outcome.tag = "return" THEN {"payload"}
    ELSE {"detail"}

\* The service object an invocation runs on: get_stock_service() and
\* get_market_service() construct a new one, with its own executor, for
\* every REST request; a direct call is a call on object 1.
service_for(via) == IF via = "rest" THEN nInst + 1 ELSE 1

\* Faulty variant of the lookup: the cache is never consulted
lookup_skipped(c, key) == [data |-> None, cache |-> c]

\* cached = self._get_from_cache(cache_key)
lookup(c, key) == get_from_cache(c, key, now)

\* The exception a single-symbol operation raises when wait_for times out:
\* get_company_info has no `except asyncio.TimeoutError`, the others convert
\* it to TimeoutException.
timeout_error(data_type) ==
    IF data_type = "company_info"
    THEN "asyncio.TimeoutError" ELSE "TimeoutException"

Done == {j \in Invocations : inv[j].pc \in {"returned", "raised"}}

\* The invocation record `rec` once its operation returned or raised, the
\* handler's answer included
Finished(rec, outcome) ==
    [rec EXCEPT !.pc = IF outcome.tag = "return" THEN "returned" ELSE "raised",
                !.doneAt = now,
                !.result = IF outcome.tag = "return" THEN outcome.value
                           ELSE [tag |-> "exc", type |-> outcome.exc],
                !.http = rest_status(rec.via, outcome),
                !.body = rest_body(rec.via, outcome)]

Finish(i, outcome) == Finished(inv[i], outcome)

\* A single-symbol operation up to its first await: validate_symbol, the
\* cache lookup, and on a miss the unit handed to the executor.
InvokeSingle(i, via, data_type, symbol) ==
    /\ inv[i].pc = "idle"
    /\ \A j \in Invocations : j < i => inv[j].pc # "idle"
    /\ LET s == service_for(via)
           c == IF s > nInst THEN EmptyCache ELSE cache[s]
           v == validate_symbol(symbol)
           key == get_cache_key(v.value, data_type, key_kwargs(data_type))
           r == lookup(c, key)
           n == IF s > nInst THEN s ELSE nInst
           called == [inv[i] EXCEPT !.pc = "awaiting", !.via = via,
                                    !.op = data_type, !.args = <<symbol>>,
                                    !.inst = s, !.awaitedAt = now,
                                    !.after = Done]
           started == [called EXCEPT !.syms = <<v.value>>, !.looked = TRUE]
       IN  /\ nInst' = n
           /\ IF v.tag = "raise"
              THEN /\ cache' = [x \in 1..n |-> IF x = s THEN c ELSE cache[x]]
                   /\ inv' = [inv EXCEPT ![i] = Finished(called, v)]
                   /\ UNCHANGED unit
              ELSE /\ cache' = [x \in 1..n |-> IF x = s THEN r.cache ELSE cache[x]]
                   /\ IF Truthy(r.data)
                      THEN /\ inv' = [inv EXCEPT ![i] =
                                        [Finished(started, Return(r.data))
                                            EXCEPT !.hit = TRUE]]
                           /\ UNCHANGED unit
                      ELSE /\ inv' = [inv EXCEPT ![i] = started]
                           /\ unit' = [unit EXCEPT ![i] = <<NewUnit>>]
    /\ UNCHANGED <<now, stored, lastGet, call>>

\* result = await asyncio.wait_for(future, ...) handed back the unit's outcome
DeliverSingle(i) ==
    /\ CanDeliver(i)
    /\ LET res == unit[i][1].res
           key == get_cache_key(inv[i].syms[1], inv[i].op, key_kwargs(inv[i].op))
           value == IF inv[i].op = "company_info"
                    THEN model_dump(res.value) ELSE res.value
       IN  IF res.tag = "return"
           THEN /\ cache' = [cache EXCEPT ![inv[i].inst] =
                               set_cache(cache[inv[i].inst], key, value, now)]
                /\ inv' = [inv EXCEPT ![i] = Finish(i, Return(value))]
           ELSE /\ inv' = [inv EXCEPT ![i] = Finish(i, res)]
                /\ UNCHANGED cache
    /\ UNCHANGED <<now, nInst, unit, stored, lastGet, call>>

\* asyncio.wait_for timed out: the unit is cancelled if it has not started,
\* abandoned on its worker otherwise
TimeoutSingle(i) ==
    /\ inv[i].op \in SingleOps
    /\ CanTimeout(i, 1)
    /\ unit' = [unit EXCEPT ![i][1] =
                  [@ EXCEPT !.aw = "timeout",
                            !.st = IF @ = "queued" THEN "cancelled" ELSE @]]
    /\ inv' = [inv EXCEPT ![i] = Finish(i, Raise(timeout_error(inv[i].op)))]
    /\ UNCHANGED <<now, cache, nInst, stored, lastGet, call>>

Init ==
    /\ now = 0
    /\ cache = [s \in {1} |-> EmptyCache]
    /\ nInst = 1
    /\ inv = IdleInv
    /\ unit = NoUnits
    /\ stored = EmptyCache
    /\ lastGet = NoGet
    /\ call = NoCall

\* The symbols the single-symbol operations are called with
SingleArgs == {Str(AAPL)}

Next ==
    \/ \E i \in Invocations, via \in {"service", "rest"},
          data_type \in SingleOps, symbol \in SingleArgs :
            InvokeSingle(i, via, data_type, symbol)
    \/ \E i \in Invocations : UnitStart(i, 1)
    \/ \E i \in Invocations, beh \in Behaviours : UnitFinish(i, 1, beh, << >>)
    \/ \E i \in Invocations : DeliverSingle(i)
    \/ \E i \in Invocations : TimeoutSingle(i)
    \/ Tick

Spec == Init /\ [][Next]_vars

----------------------------------------------------------------------------
(* Claims about the single-symbol operations (specification Spec)         *)

SameRequest(i, j) ==
    /\ i # j
    /\ inv[i].op \in SingleOps
    /\ inv[j].op = inv[i].op
    /\ inv[j].syms = inv[i].syms

\* j started after i had fetched and returned its payload, less than
\* cache_timeout after i stored it
AfterWithinTtl(i, j) ==
    /\ inv[i].pc = "returned"
    /\ ~inv[i].hit
    /\ i \in inv[j].after
    /\ inv[j].awaitedAt - inv[i].doneAt < cache_timeout

\* C2: on one StockService instance, of two sequential invocations of the same
\* single-symbol operation with the same symbol and parameters, the second
\* starting after the first succeeded and within the TTL, the second submits
\* nothing to the executor and returns the cached payload: at most one adapter
\* call is submitted in total.
C2_SecondServedFromCache ==
    \A i, j \in Invocations :
        (SameRequest(i, j) /\ inv[j].inst = inv[i].inst /\ AfterWithinTtl(i, j))
        => /\ inv[j].pc = "returned"
           /\ inv[j].hit
           /\ unit[j] = << >>
           /\ Len(unit[i]) = 1
           /\ inv[j].result = inv[i].result

\* C2 witness: a second get_historical_data on the instance of the first,
\* served while the first's entry is fresh
C2_Witness ==
    \E i, j \in Invocations :
        /\ SameRequest(i, j) /\ inv[j].inst = inv[i].inst /\ AfterWithinTtl(i, j)
        /\ inv[i].op = "history"
        /\ inv[j].hit
        /\ inv[j].awaitedAt > inv[i].doneAt

\* C3: the cache is one store shared by all requests: an entry written while
\* serving one REST request is visible, within its TTL, to every later REST
\* request for the same key, which is served from cache without an adapter
\* call.
C3_SharedAcrossRequests ==
    \A i, j \in Invocations :
        (/\ SameRequest(i, j)
         /\ inv[i].via = "rest" /\ inv[j].via = "rest"
         /\ AfterWithinTtl(i, j))
        => /\ inv[j].hit
           /\ unit[j] = << >>

\* C4: for every single-symbol operation, if the adapter call has not returned
\* within timeout_seconds of being awaited, the operation fails with
\* TimeoutException (status 408).
C4_TimeoutIsTyped ==
    \A i \in Invocations :
        (/\ inv[i].op \in SingleOps
         /\ unit[i] # << >>
         /\ unit[i][1].aw = "timeout")
        => /\ inv[i].pc = "raised"
           /\ inv[i].result = [tag |-> "exc", type |-> "TimeoutException"]
           /\ inv[i].via = "rest" => inv[i].http = 408

----------------------------------------------------------------------------
(* Batch (fan-out) operations: StockService.get_multiple_stocks and       *)
(* get_multiple_company_info, MarketService.get_trending_stocks and       *)
(* get_market_indices.                                                    *)

\* MarketService.trending_symbols (its first three entries; the list has 15)
\* and MarketService.market_indices
trending_symbols == <<AAPL, GOOGL, MSFT>>
market_indices == <<GSPC, DJI, IXIC>>

\* The symbol lists a caller passes: AAPL, MSFT, AAPL, MSFT, ... cut at every
\* length up to MaxBatch (from the third entry on a symbol occurs twice)
RequestLists ==
    {[k \in 1..n |-> IF k % 2 = 1 THEN Str(AAPL) ELSE Str(MSFT)] :
        n \in 1..MaxBatch}

\* The same lists with one entry replaced by the empty str
InvalidLists ==
    UNION {{[l EXCEPT ![p] = Str(<< >>)] : p \in DOMAIN l} : l \in RequestLists}

RECURSIVE validate_all(_)
\* [validate_symbol(symbol) for symbol in symbols]: the list of the validated
\* symbols, or the exception of the first symbol that fails
validate_all(symbols) ==
    IF symbols = << >> THEN Return(<< >>)
    ELSE LET v == validate_symbol(Head(symbols))
             rest == validate_all(Tail(symbols))
         IN  IF v.tag = "raise" THEN v
             ELSE IF rest.tag = "raise" THEN rest
             ELSE Return(<<v.value>> \o rest.value)

\* lambda x: x.get('market_cap', 0) or 0
market_cap_key(x) ==
    IF "market_cap" \in DOMAIN x /\ x.market_cap # << >>
    THEN x.market_cap[1] ELSE 0

RECURSIVE insert_desc(_, _)
\* x, which followed every element of the sorted s in the list, goes behind
\* the elements whose key is not smaller than its own
insert_desc(x, s) ==
    IF s = << >> THEN <<x>>
    ELSE IF market_cap_key(Head(s)) >= market_cap_key(x)
    THEN <<Head(s)>> \o insert_desc(x, Tail(s))
    ELSE <<x>> \o s

RECURSIVE insert_desc_unstable(_, _)
\* Faulty variant of the sort: x goes before the elements of equal key (a
\* descending order obtained by reversing an ascending sort)
insert_desc_unstable(x, s) ==
    IF s = << >> THEN <<x>>
    ELSE IF market_cap_key(Head(s)) > market_cap_key(x)
    THEN <<Head(s)>> \o insert_desc_unstable(x, Tail(s))
    ELSE <<x>> \o s

RECURSIVE sort_unstable(_)
sort_unstable(s) ==
    IF s = << >> THEN << >>
    ELSE insert_desc_unstable(s[Len(s)], sort_unstable(SubSeq(s, 1, Len(s) - 1)))

RECURSIVE sort_by_market_cap(_)
\* list.sort(key=lambda x: x.get('market_cap', 0) or 0, reverse=True): the
\* list in descending key order, elements of equal key in their list order
sort_by_market_cap(s) ==
    IF s = << >> THEN << >>
    ELSE insert_desc(s[Len(s)], sort_by_market_cap(SubSeq(s, 1, Len(s) - 1)))

\* Faulty variant of the filter: every dict is kept, the 'error' ones too
keep_stock_all(r) == r.tag = "return" /\ r.value.tag = "dict"

\* isinstance(result, dict) and 'error' not in result
keep_stock(r) ==
    /\ r.tag = "return"
    /\ r.value.tag = "dict"
    /\ "error" \notin DOMAIN r.value

RECURSIVE select_stocks(_)
\* [result for result in results if ...]
select_stocks(results) ==
    IF results = << >> THEN << >>
    ELSE (IF keep_stock(Head(results)) THEN <<Head(results).value>> ELSE << >>)
         \o select_stocks(Tail(results))

\* get_multiple_stocks, from the gathered results on
multiple_stocks_result(results) ==
    LET trending_stocks == sort_by_market_cap(select_stocks(results)) IN
    [tag |-> "dict", trending_stocks |-> trending_stocks,
     total_stocks |-> Len(trending_stocks), market_status |-> "active"]

\* Faulty variant of the test: a None result counts as successful
market_failed_never(r) == r.tag = "raise"

\* isinstance(result, Exception) or result is None
market_failed(r) == r.tag = "raise" \/ r.value = None

RECURSIVE market_collect(_)
\* the loop over results of get_trending_stocks / get_market_indices:
\* the collected items and the two counters
market_collect(results) ==
    IF results = << >>
    THEN [items |-> << >>, successful_requests |-> 0, failed_requests |-> 0]
    ELSE LET r == results[Len(results)]
             a == market_collect(SubSeq(results, 1, Len(results) - 1))
         IN  IF market_failed(r)
             THEN [a EXCEPT !.failed_requests = @ + 1]
             ELSE [a EXCEPT !.successful_requests = @ + 1,
                            !.items = Append(@, r.value)]

\* MarketService.get_trending_stocks, from the gathered results on
trending_result(results) ==
    LET a == market_collect(results) IN
    [tag |-> "dict", trending_stocks |-> sort_by_market_cap(a.items),
     total_requested |-> Len(trending_symbols),
     successful_requests |-> a.successful_requests,
     failed_requests |-> a.failed_requests, timestamp |-> now]

\* MarketService.get_market_indices, from the gathered results on
indices_result(results) ==
    LET a == market_collect(results) IN
    [tag |-> "dict", market_indices |-> a.items,
     total_requested |-> Len(market_indices),
     successful_requests |-> a.successful_requests,
     failed_requests |-> a.failed_requests, timestamp |-> now]

\* CompanyInfoSchema(symbol=symbol, name="", business_summary="Error: ...")
error_schema(symbol) ==
    [tag |-> "CompanyInfoSchema", symbol |-> symbol, name |-> "",
     business_summary |-> "Error", fetch |-> <<0, 0>>]

RECURSIVE info_tasks(_, _)
\* the loop of get_multiple_company_info that builds tasks: a cached symbol
\* gets the return_cached coroutine, any other a unit wrapped in wait_for.
\* Yields the tasks and the cache the lookups leave.
info_tasks(c, syms) ==
    IF syms = << >> THEN [cache |-> c, units |-> << >>]
    ELSE LET r == lookup(c, get_cache_key(Head(syms), "company_info", NoKwargs))
             rest == info_tasks(r.cache, Tail(syms))
             u == IF Truthy(r.data)
                  THEN [NewUnit EXCEPT !.st = "cached", !.res = Return(r.data)]
                  ELSE NewUnit
         IN  [cache |-> rest.cache, units |-> <<u>> \o rest.units]

RECURSIVE info_collect(_, _, _)
\* the loop over zip(validated, results) of get_multiple_company_info: the
\* stocks list, the two counters and the cache after the _set_cache calls
info_collect(c, syms, results) ==
    IF results = << >>
    THEN [stocks |-> << >>, success_count |-> 0, failure_count |-> 0, cache |-> c]
    ELSE LET n == Len(results)
             r == results[n]
             symbol == syms[n]
             a == info_collect(c, SubSeq(syms, 1, n - 1), SubSeq(results, 1, n - 1))
         IN  IF r.tag = "return" /\ r.value.tag = "CompanyInfoSchema"
             THEN [stocks |-> Append(a.stocks, [key |-> symbol, value |-> r.value]),
                   success_count |-> a.success_count + 1,
                   failure_count |-> a.failure_count,
                   cache |-> set_cache(a.cache,
                                get_cache_key(symbol, "company_info", NoKwargs),
                                model_dump(r.value), now)]
             ELSE IF r.tag = "return" /\ r.value.tag = "dict"
             THEN [a EXCEPT !.stocks = Append(@, [key |-> symbol,
                                                  value |-> CompanyInfoSchema(r.value)]),
                            !.success_count = @ + 1]
             ELSE [a EXCEPT !.stocks = Append(@, [key |-> symbol,
                                                  value |-> error_schema(symbol)]),
                            !.failure_count = @ + 1]

\* Faulty variant of the response: total_stocks counts the entries that
\* succeeded
multiple_info_result_succeeded(a, symbols) ==
    [tag |-> "MultipleInfoResponse", stocks |-> a.stocks,
     total_stocks |-> a.success_count,
     successful_requests |-> a.success_count,
     failed_requests |-> a.failure_count]

\* MultipleInfoResponse(stocks=..., total_stocks=len(symbols), ...)
multiple_info_result(a, symbols) ==
    [tag |-> "MultipleInfoResponse", stocks |-> a.stocks,
     total_stocks |-> Len(symbols),
     successful_requests |-> a.success_count,
     failed_requests |-> a.failure_count]

RECURSIVE price_tasks(_, _)
\* Faulty variant of the fan-out of the other batch operations: a symbol with
\* a live price entry is served from the cache
price_tasks(c, syms) ==
    IF syms = << >> THEN [cache |-> c, units |-> << >>]
    ELSE LET r == lookup(c, get_cache_key(Head(syms), "price", NoKwargs))
             rest == price_tasks(r.cache, Tail(syms))
             u == IF Truthy(r.data)
                  THEN [NewUnit EXCEPT !.st = "cached", !.res = Return(r.data)]
                  ELSE NewUnit
         IN  [cache |-> rest.cache, units |-> <<u>> \o rest.units]

batch_tasks_cached(c, op, syms) ==
    IF op = "multiple_company_info" THEN info_tasks(c, syms)
    ELSE price_tasks(c, syms)

\* The awaitables a batch operation gathers, and the cache it leaves:
\* get_multiple_company_info looks every symbol up, the other operations
\* submit one unit per symbol and do not touch the cache
batch_tasks(c, op, syms) ==
    IF op = "multiple_company_info" THEN info_tasks(c, syms)
    ELSE [cache |-> c, units |-> [k \in 1..Len(syms) |-> NewUnit]]

\* The symbols a batch operation works on: the MarketService operations
\* their fixed lists, the StockService operations the validated arguments
batch_symbols(op, symbols) ==
    CASE op = "trending" -> Return(trending_symbols)
      [] op = "indices" -> Return(market_indices)
      [] OTHER -> validate_all(symbols)

\* A batch operation up to its `await asyncio.gather(...)`: the symbols are
\* validated, then one unit per symbol is submitted;
\* get_multiple_company_info looks every symbol up first.  Of the REST
\* handlers of the batch operations the one of get_market_indices is
\* modelled (via = "rest").
InvokeBatch(i, via, op, symbols) ==
    /\ inv[i].pc = "idle"
    /\ \A j \in Invocations : j < i => inv[j].pc # "idle"
    /\ via = "rest" => op = "indices"
    /\ LET s == service_for(via)
           c == IF s > nInst THEN EmptyCache ELSE cache[s]
           n == IF s > nInst THEN s ELSE nInst
           v == batch_symbols(op, symbols)
           t == batch_tasks(c, op, v.value)
           called == [inv[i] EXCEPT !.pc = "awaiting", !.via = via, !.op = op,
                                    !.args = symbols, !.inst = s,
                                    !.awaitedAt = now, !.after = Done]
       IN  /\ nInst' = n
           /\ IF v.tag = "raise"
              THEN /\ inv' = [inv EXCEPT ![i] = Finished(called, v)]
                   /\ cache' = [x \in 1..n |-> IF x = s THEN c ELSE cache[x]]
                   /\ UNCHANGED unit
              ELSE /\ inv' = [inv EXCEPT ![i] =
                                [called EXCEPT
                                    !.syms = v.value,
                                    !.looked = (op = "multiple_company_info")]]
                   /\ unit' = [unit EXCEPT ![i] = t.units]
                   /\ cache' = [x \in 1..n |-> IF x = s THEN t.cache ELSE cache[x]]
    /\ UNCHANGED <<now, stored, lastGet, call>>

\* Faulty variant of the timeout: a unit still in the queue stays there
TimeoutUnitKeepQueued(i, k) ==
    /\ inv[i].op = "multiple_company_info"
    /\ CanTimeout(i, k)
    /\ unit' = [unit EXCEPT ![i][k] = [@ EXCEPT !.aw = "timeout"]]
    /\ UNCHANGED <<now, cache, nInst, inv, stored, lastGet, call>>

\* The wait_for around a unit of get_multiple_company_info timed out
TimeoutUnit(i, k) ==
    /\ inv[i].op = "multiple_company_info"
    /\ CanTimeout(i, k)
    /\ unit' = [unit EXCEPT ![i][k] =
                  [@ EXCEPT !.aw = "timeout",
                            !.st = IF @ = "queued" THEN "cancelled" ELSE @]]
    /\ UNCHANGED <<now, cache, nInst, inv, stored, lastGet, call>>

\* gather has every result: the rest of the operation
AssembleBatch(i) ==
    /\ CanAssemble(i)
    /\ LET op == inv[i].op
           results == [k \in DOMAIN unit[i] |-> Outcome(unit[i][k])]
           a == info_collect(cache[inv[i].inst], inv[i].syms, results)
       IN  CASE op = "multiple_stocks" ->
                  /\ inv' = [inv EXCEPT ![i] =
                               Finish(i, Return(multiple_stocks_result(results)))]
                  /\ UNCHANGED cache
             [] op = "trending" ->
                  /\ inv' = [inv EXCEPT ![i] =
                               Finish(i, Return(trending_result(results)))]
                  /\ UNCHANGED cache
             [] op = "indices" ->
                  /\ inv' = [inv EXCEPT ![i] =
                               Finish(i, Return(indices_result(results)))]
                  /\ UNCHANGED cache
             [] op = "multiple_company_info" ->
                  /\ inv' = [inv EXCEPT ![i] =
                               Finish(i, Return(multiple_info_result(a, inv[i].syms)))]
                  /\ cache' = [cache EXCEPT ![inv[i].inst] = a.cache]
    /\ UNCHANGED <<now, nInst, unit, stored, lastGet, call>>

\* The instance's cache when the batch operation is called: empty, or holding
\* the company_info entry an earlier get_company_info("AAPL") left, stored
\* just now or cache_timeout ago
InitialCaches ==
    {EmptyCache} \cup
    {set_cache(EmptyCache, get_cache_key(AAPL, "company_info", NoKwargs),
               model_dump(fetch_company_info(AAPL, "ok", <<0, 0>>).value), t) :
        t \in {0, 0 - cache_timeout}}

InitBatch ==
    /\ now = 0
    /\ cache \in {[s \in {1} |-> c] : c \in InitialCaches}
    /\ nInst = 1
    /\ inv = IdleInv
    /\ unit = NoUnits
    /\ stored = EmptyCache
    /\ lastGet = NoGet
    /\ call = NoCall

\* The market caps the provider may report with a unit's data
cap_choices(op, beh) ==
    IF beh = "ok" /\ op \in {"multiple_stocks", "trending"}
    THEN MarketCaps ELSE {<< >>}

NextBatch ==
    \/ \E op \in StockBatchOps, symbols \in RequestLists \cup InvalidLists :
          InvokeBatch(1, "service", op, symbols)
    \/ \E op \in MarketBatchOps : InvokeBatch(1, "service", op, << >>)
    \/ \E k \in DOMAIN unit[1] : UnitStart(1, k)
    \/ \E k \in DOMAIN unit[1], beh \in Behaviours :
          \E cap \in cap_choices(inv[1].op, beh) : UnitFinish(1, k, beh, cap)
    \/ \E k \in DOMAIN unit[1] : TimeoutUnit(1, k)
    \/ AssembleBatch(1)
    \/ Tick

SpecBatch == InitBatch /\ [][NextBatch]_vars

\* SpecBatch with the scheduling the runtime guarantees: the event loop runs a
\* ready timeout or continuation, a free worker takes the next queued unit,
\* time passes.  Nothing makes the provider answer: UnitFinish is not fair.
LiveSpecBatch ==
    /\ SpecBatch
    /\ WF_vars(\E k \in DOMAIN unit[1] : UnitStart(1, k))
    /\ WF_vars(\E k \in DOMAIN unit[1] : TimeoutUnit(1, k))
    /\ WF_vars(AssembleBatch(1))
    /\ WF_vars(Tick)

----------------------------------------------------------------------------
(* Claims about the batch operations (specifications SpecBatch and         *)
(* LiveSpecBatch)                                                          *)

Returned(i, op) == inv[i].pc = "returned" /\ inv[i].op = op

\* The units of invocation i whose adapter call succeeded (the provider
\* answered with data) and those whose call failed (it raised, reported the
\* symbol unknown or answered with no rows)
Succeeded(i) ==
    {k \in DOMAIN unit[i] : unit[i][k].st = "finished" /\ unit[i][k].beh = "ok"}
FailedUnits(i) ==
    {k \in DOMAIN unit[i] : unit[i][k].st = "finished" /\ unit[i][k].beh # "ok"}

\* The market cap the provider reported with a payload, a missing one as zero
CapOf(x) == IF x.market_cap = << >> THEN 0 ELSE x.market_cap[1]

\* The units of invocation i that the payloads of list `items` come from
Sources(i, items) == {items[n].fetch[2] : n \in DOMAIN items}

\* `items` holds exactly one payload for every unit of K, each the payload of
\* that unit's symbol, and nothing else
ExactlyThePayloadsOf(i, items, K) ==
    /\ Len(items) = Cardinality(K)
    /\ \A n \in DOMAIN items :
        /\ items[n] # None
        /\ "error" \notin DOMAIN items[n]
        /\ items[n].fetch[1] = i
        /\ items[n].symbol = inv[i].syms[items[n].fetch[2]]
    /\ Sources(i, items) = K

Descending(items) ==
    \A a, b \in DOMAIN items : a < b => CapOf(items[a]) >= CapOf(items[b])

\* C5: for get_trending_stocks and get_market_indices over n fixed symbols, if
\* k adapter calls fail and n-k succeed, the result has successful_requests =
\* n-k, failed_requests = k, total_requested = n, and its list holds exactly
\* the n-k successful payloads (for trending, in descending market cap).
C5_MarketBatchCounts ==
    \A i \in Invocations :
        /\ Returned(i, "trending") =>
            LET r == inv[i].result IN
            /\ r.successful_requests = Cardinality(Succeeded(i))
            /\ r.failed_requests = Cardinality(FailedUnits(i))
            /\ r.total_requested = Len(inv[i].syms)
            /\ r.successful_requests + r.failed_requests = r.total_requested
            /\ ExactlyThePayloadsOf(i, r.trending_stocks, Succeeded(i))
            /\ Descending(r.trending_stocks)
        /\ Returned(i, "indices") =>
            LET r == inv[i].result IN
            /\ r.successful_requests = Cardinality(Succeeded(i))
            /\ r.failed_requests = Cardinality(FailedUnits(i))
            /\ r.total_requested = Len(inv[i].syms)
            /\ r.successful_requests + r.failed_requests = r.total_requested
            /\ ExactlyThePayloadsOf(i, r.market_indices, Succeeded(i))

\* C5 witness: a trending result over the three symbols with two failed calls
\* of different kinds and one successful
C5_Witness ==
    /\ Returned(1, "trending")
    /\ inv[1].result.failed_requests = 2
    /\ inv[1].result.successful_requests = 1
    /\ {unit[1][k].beh : k \in FailedUnits(1)} = {"empty", "transport"}

\* C6: in get_multiple_company_info every symbol whose adapter call fails (the
\* provider call raises) is omitted from stocks and counted in
\* failed_requests, every symbol whose call succeeds appears in stocks and is
\* counted in successful_requests; a failing item never aborts the batch.
C6_FailedInfoOmitted ==
    \A i \in Invocations :
        Returned(i, "multiple_company_info") =>
            LET r == inv[i].result
                raised == {k \in DOMAIN unit[i] :
                             /\ unit[i][k].st = "finished"
                             /\ unit[i][k].aw = "pending"
                             /\ unit[i][k].beh = "transport"}
            IN  /\ \A k \in raised, n \in DOMAIN r.stocks :
                     r.stocks[n].value.fetch # <<i, k>>
                /\ r.failed_requests >= Cardinality(raised)
                /\ r.successful_requests <= Len(inv[i].syms) - Cardinality(raised)

\* C7: get_multiple_stocks returns in trending_stocks exactly the payloads of
\* the requested symbols whose adapter call succeeded: every item whose fetch
\* raised is omitted, no successful item is omitted, an item whose fetch
\* fails never makes the batch fail, and total_stocks is the number of
\* included payloads.
C7_MultipleStocksExact ==
    \A i \in Invocations :
        /\ (inv[i].op = "multiple_stocks" /\ unit[i] # << >>) =>
              inv[i].pc # "raised"
        /\ (inv[i].op = "multiple_stocks" /\ CanAssemble(i)) =>
              \A k \in DOMAIN unit[i] : unit[i][k].res.tag = "return"
        /\ Returned(i, "multiple_stocks") =>
            LET r == inv[i].result IN
            /\ ExactlyThePayloadsOf(i, r.trending_stocks, Succeeded(i))
            /\ r.total_stocks = Len(r.trending_stocks)
            /\ Succeeded(i) \cup FailedUnits(i) = DOMAIN unit[i]

\* C7 witness: three symbols requested, the middle one failing
C7_Witness ==
    /\ Returned(1, "multiple_stocks")
    /\ Len(inv[1].syms) = 3
    /\ FailedUnits(1) = {2}
    /\ inv[1].result.total_stocks = 2

\* C8: in the output of get_multiple_stocks and get_trending_stocks the
\* included results are in descending market cap, a missing market cap
\* counting as zero, and two results of equal (or both missing) market cap
\* keep the order in which their symbols were submitted.
C8_StableDescending ==
    \A i \in Invocations :
        (Returned(i, "multiple_stocks") \/ Returned(i, "trending")) =>
            LET out == inv[i].result.trending_stocks IN
            \A a, b \in DOMAIN out :
                a < b =>
                    \/ CapOf(out[a]) > CapOf(out[b])
                    \/ /\ CapOf(out[a]) = CapOf(out[b])
                       /\ out[a].fetch[2] < out[b].fetch[2]

\* C8 witness: the symbol submitted last has the largest market cap and comes
\* first; the two before it, one with market cap 0 and one with none, follow
\* in submission order
C8_Witness ==
    /\ Returned(1, "multiple_stocks")
    /\ LET out == inv[1].result.trending_stocks IN
       /\ Len(out) = 3
       /\ out[1].fetch[2] = 3 /\ out[1].market_cap = <<1>>
       /\ out[2].fetch[2] = 1 /\ out[2].market_cap = << >>
       /\ out[3].fetch[2] = 2 /\ out[3].market_cap = <<0>>

\* A unit whose adapter call took longer than timeout_seconds, or was still
\* not back when the batch was assembled
Exceeded(i) ==
    {k \in DOMAIN unit[i] : unit[i][k].late \/ unit[i][k].aw = "timeout"}

\* The payloads a batch result includes as successful
Included(i) ==
    LET r == inv[i].result IN
    CASE inv[i].op = "indices" -> Sources(i, r.market_indices)
      [] inv[i].op = "multiple_company_info" ->
            {n \in DOMAIN r.stocks : r.stocks[n].value.business_summary # "Error"}
      [] OTHER -> Sources(i, r.trending_stocks)

\* C9: in a batch operation, a unit of work whose adapter call exceeds
\* timeout_seconds is recorded as a failure of that symbol only, and the
\* results recorded for its siblings are what they are without it.
C9_SlowUnitIsFailure ==
    \A i \in Invocations :
        (inv[i].pc = "returned" /\ inv[i].op \in BatchOps) =>
            /\ Exceeded(i) \cap Included(i) = {}
            /\ inv[i].op \in MarketBatchOps \cup {"multiple_company_info"} =>
                  inv[i].result.failed_requests >= Cardinality(Exceeded(i))

\* C10: every batch operation eventually returns a result, even when one of
\* its adapter calls never returns.
C10_BatchReturns ==
    \A i \in Invocations :
        (inv[i].pc = "awaiting" /\ inv[i].op \in BatchOps)
            ~> (inv[i].pc = "returned")

\* The units of invocation i whose awaitable has not completed: neither a
\* result nor a timeout yet
PendingUnits(i) == {k \in DOMAIN unit[i] : ~Completed(unit[i][k])}

\* C11: a batch operation never returns, and never starts assembling its
\* result, while any unit it submitted is still pending: it proceeds only
\* after every unit has succeeded, failed or timed out; a failed unit does not
\* make it proceed early.
C11_WaitsForAll ==
    \A i \in Invocations :
        (inv[i].op \in BatchOps /\ PendingUnits(i) # {}) =>
            /\ inv[i].pc = "awaiting"
            /\ ~ENABLED AssembleBatch(i)

\* C11 witness: a unit of the batch has failed while a sibling is still with
\* the executor, and the operation is still awaiting
C11_Witness ==
    /\ inv[1].op \in BatchOps
    /\ inv[1].pc = "awaiting"
    /\ FailedUnits(1) # {}
    /\ \E k \in PendingUnits(1) : unit[1][k].st = "running"

\* The arguments of invocation i that fail validation
InvalidArgs(i) ==
    {k \in DOMAIN inv[i].args : validate_symbol(inv[i].args[k]).tag = "raise"}

\* C12: in get_multiple_stocks and get_multiple_company_info a symbol that
\* fails validation aborts that item only: the call does not fail with
\* InvalidSymbolException, and a unit is submitted for each of the other
\* symbols.
C12_InvalidItemOnly ==
    \A i \in Invocations :
        (inv[i].op \in StockBatchOps /\ InvalidArgs(i) # {}) =>
            /\ inv[i].pc # "raised"
            /\ Len(unit[i]) = Len(inv[i].args) - Cardinality(InvalidArgs(i))

----------------------------------------------------------------------------
(* Specification SpecValidate: one single-symbol operation called with    *)
(* every argument up to MaxLen characters, and with None.                  *)

Chars == {" ", "a", "A"}

Arguments ==
    {NoneValue} \cup
    {Str(s) : s \in UNION {[1..n -> Chars] : n \in 0..MaxLen}}

NextValidate ==
    \/ \E data_type \in SingleOps, symbol \in Arguments :
          InvokeSingle(1, "service", data_type, symbol)
    \/ UnitStart(1, 1)
    \/ \E beh \in Behaviours : UnitFinish(1, 1, beh, << >>)
    \/ DeliverSingle(1)
    \/ TimeoutSingle(1)
    \/ Tick

SpecValidate == Init /\ [][NextValidate]_vars

\* A non-empty str without leading or trailing whitespace and without a
\* lower-case letter
IsNormalized(s) ==
    /\ s # << >>
    /\ Head(s) \notin Whitespace
    /\ s[Len(s)] \notin Whitespace
    /\ \A n \in DOMAIN s : \A m \in DOMAIN LowerCase : s[n] # LowerCase[m]

\* C13: for every argument, validate_symbol either returns a non-empty,
\* trimmed, upper-case symbol or fails with InvalidSymbolException (the
\* normalized symbol is never the empty str, for whitespace-only arguments
\* too), and the operation makes no cache lookup and no adapter call for an
\* argument that failed validation.
C13_ValidateSymbol ==
    \A i \in Invocations :
        (inv[i].op \in SingleOps /\ inv[i].pc # "idle") =>
            LET v == validate_symbol(inv[i].args[1]) IN
            \/ /\ v = Raise("InvalidSymbolException")
               /\ inv[i].pc = "raised"
               /\ inv[i].result = [tag |-> "exc", type |-> "InvalidSymbolException"]
               /\ ~inv[i].looked
               /\ unit[i] = << >>
            \/ /\ v.tag = "return"
               /\ IsNormalized(v.value)
               /\ inv[i].syms = <<v.value>>

----------------------------------------------------------------------------
(* Specification SpecKey: _get_cache_key called twice with the same        *)
(* keyword arguments, written in two orders.                               *)

ParamValues == {"1d", "1mo"}

Items == {<<ParamNames[n], v>> : n \in DOMAIN ParamNames, v \in ParamValues}

\* The dicts of at most MaxParams items: every sequence of items with
\* distinct names
Kwargs ==
    UNION {{k \in [1..n -> Items] :
               \A a, b \in 1..n : a # b => k[a][1] # k[b][1]} :
           n \in 0..MaxParams}

\* Two dicts with the same items, whatever their order
SameItems(a, b) ==
    /\ Len(a) = Len(b)
    /\ {a[n] : n \in DOMAIN a} = {b[n] : n \in DOMAIN b}

\* The pairs of dicts with the same items
KwargsPairs == {p \in Kwargs \X Kwargs : SameItems(p[1], p[2])}

InitKey ==
    /\ now = 0
    /\ cache = [s \in {1} |-> EmptyCache]
    /\ nInst = 1
    /\ inv = IdleInv
    /\ unit = NoUnits
    /\ stored = EmptyCache
    /\ lastGet = NoGet
    /\ call \in {[tag |-> "args", symbol |-> symbol, data_type |-> data_type,
                   first |-> p[1], second |-> p[2],
                   key1 |-> << >>, key2 |-> << >>] :
                    symbol \in Symbols, data_type \in {"price", "history"},
                    p \in KwargsPairs}

KeyCalls ==
    /\ call.tag = "args"
    /\ call' = [call EXCEPT
                  !.tag = "keys",
                  !.key1 = get_cache_key(call.symbol, call.data_type, call.first),
                  !.key2 = get_cache_key(call.symbol, call.data_type, call.second)]
    /\ UNCHANGED <<now, cache, nInst, inv, unit, stored, lastGet>>

SpecKey == InitKey /\ [][KeyCalls]_vars

\* C14: _get_cache_key does not depend on the order in which the keyword
\* arguments are written: for every symbol, operation kind and set of
\* name/value pairs, two orderings of the pairs yield the identical key.
C14_KeyOrderIndependent ==
    call.tag = "keys" => call.key1 = call.key2

\* C14 witness: the history key with period before interval and with interval
\* before period
C14_Witness ==
    /\ call.tag = "keys"
    /\ call.data_type = "history"
    /\ call.first = << <<"period", "1mo">>, <<"interval", "1d">> >>
    /\ call.second = << <<"interval", "1d">>, <<"period", "1mo">> >>
    /\ call.key1 = <<AAPL, "history", <<"interval", "1d">>, <<"period", "1mo">> >>

----------------------------------------------------------------------------
(* Specification SpecPool: two REST requests in flight at once, each a     *)
(* GET /market/indices or a GET /stock/AAPL/price.                         *)

NextPool ==
    \/ \E i \in Invocations : InvokeBatch(i, "rest", "indices", << >>)
    \/ \E i \in Invocations : InvokeSingle(i, "rest", "price", Str(AAPL))
    \/ \E i \in Invocations : \E k \in DOMAIN unit[i] : UnitStart(i, k)
    \/ \E i \in Invocations : \E k \in DOMAIN unit[i] :
          \E beh \in {"ok", "transport"} : UnitFinish(i, k, beh, << >>)
    \/ \E i \in Invocations : AssembleBatch(i)
    \/ \E i \in Invocations : DeliverSingle(i)
    \/ \E i \in Invocations : TimeoutSingle(i)
    \/ Tick

SpecPool == Init /\ [][NextPool]_vars

\* The adapter calls executing at this moment, in whatever pool
Executing == {id \in UnitIds : unit[id[1]][id[2]].st = "running"}

\* C15: at every moment, counted across all in-flight requests of the
\* process, at most max_workers adapter calls execute simultaneously.
C15_BoundedWorkers == Cardinality(Executing) <= max_workers

----------------------------------------------------------------------------
(* Claims about failures of the single-symbol operations and the answers  *)
(* of their REST handlers (specification Spec)                            *)

\* Invocation i is a REST request whose operation raised
RestFailure(i) == inv[i].via = "rest" /\ inv[i].pc = "raised"

\* C16: at the REST boundary of the stock endpoints, an operation that fails
\* with InvalidSymbolException answers 400, with DataNotFoundException 404,
\* with TimeoutException 408, with any other (untyped) exception 500; no
\* operation that failed is answered with a success status.
C16_StatusMapping ==
    \A i \in Invocations :
        RestFailure(i) =>
            LET e == inv[i].result.type IN
            /\ e = "InvalidSymbolException" => inv[i].http = 400
            /\ e = "DataNotFoundException" => inv[i].http = 404
            /\ e = "TimeoutException" => inv[i].http = 408
            /\ e \notin StockAPIExceptions => inv[i].http = 500
            /\ inv[i].http \notin 200..299

\* C16 witness: one request answered 404 for a DataNotFoundException, another
\* answered 500 for an untyped exception
C16_Witness ==
    /\ RestFailure(1) /\ RestFailure(2)
    /\ inv[1].result.type = "DataNotFoundException" /\ inv[1].http = 404
    /\ inv[2].result.type = "Exception" /\ inv[2].http = 500

\* C17: every error response for a typed failure (InvalidSymbolException,
\* DataNotFoundException, TimeoutException) has the body shape
\* {success, message, error_code, timestamp}.
C17_ErrorBodyShape ==
    \A i \in Invocations :
        (RestFailure(i) /\ inv[i].result.type \in StockAPIExceptions) =>
            inv[i].body = stock_api_exception_handler

\* C18: for every operation kind the adapter classifies failures three ways:
\* the provider reporting the symbol unknown is InvalidSymbolException, an
\* empty result window is DataNotFoundException, a transport or parse failure
\* is a provider/internal error (500), never InvalidSymbolException.
C18_AdapterClassification ==
    \A i \in Invocations :
        (inv[i].op \in SingleOps /\ unit[i] # << >>
           /\ unit[i][1].st = "finished") =>
            LET u == unit[i][1] IN
            /\ u.beh = "unknown" => u.res = Raise("InvalidSymbolException")
            /\ u.beh = "empty" => u.res = Raise("DataNotFoundException")
            /\ u.beh \in {"transport", "broken"} =>
                  /\ u.res.tag = "raise"
                  /\ u.res.exc # "InvalidSymbolException"
                  /\ status_code(u.res.exc) = 500

\* C19: every single-symbol operation, get_company_info included, turns a
\* failure of its adapter call into a typed error raised to the caller: it
\* never returns a payload, and never answers with a success status, when the
\* provider call failed.
C19_FailureIsRaised ==
    \A i \in Invocations :
        (/\ inv[i].op \in SingleOps
         /\ inv[i].pc \in {"returned", "raised"}
         /\ unit[i] # << >>
         /\ unit[i][1].st = "finished"
         /\ unit[i][1].aw = "pending"
         /\ unit[i][1].beh \in {"transport", "broken"}) =>
            /\ inv[i].pc = "raised"
            /\ inv[i].result.type \in StockAPIExceptions
            /\ inv[i].via = "rest" => inv[i].http \notin 200..299

----------------------------------------------------------------------------
(* BrokerService.get_enriched_holdings: the holdings frame, the two batch *)
(* calls on the BrokerService's own StockService, and the merge.          *)
(* call holds the frame (rows), where the coroutine stands (pc) and the   *)
(* list it returns (enriched).                                            *)

BOList == {<<"I", "N", "D", "I", "G", "R", "I", "D">>}

\* Faulty variant of the 'quote' column: the exception list is not consulted
quote_of_exchange_only(row) ==
    IF row.exchange \in {"NSE", "ALL"}
    THEN row.tradingSymbol \o <<".", "N", "S">>
    ELSE row.tradingSymbol \o <<".", "B", "O">>

\* The 'quote' column of fetch_holdings: tradingSymbol + ".NS" or ".BO"
quote_of(row) ==
    IF row.exchange \in {"NSE", "ALL"} /\ row.tradingSymbol \notin BOList
    THEN row.tradingSymbol \o <<".", "N", "S">>
    ELSE row.tradingSymbol \o <<".", "B", "O">>

\* Rows the brokers report (the columns that tell rows apart)
HoldingRows ==
    {[exchange |-> "NSE", tradingSymbol |-> <<"T">>, brokerName |-> "shoonya"],
     [exchange |-> "NSE", tradingSymbol |-> <<"T">>, brokerName |-> "dhan"],
     [exchange |-> "NSE", tradingSymbol |-> <<"t">>, brokerName |-> "dhan"],
     [exchange |-> "BSE", tradingSymbol |-> <<"T">>, brokerName |-> "dhan"]}

\* The frames fetch_holdings returns: one to MaxRows rows, each with its quote
HoldingsFrames ==
    UNION {[1..n -> {[exchange |-> r.exchange, tradingSymbol |-> r.tradingSymbol,
                      brokerName |-> r.brokerName, quote |-> quote_of(r)] :
                        r \in HoldingRows}] : n \in 1..MaxRows}

\* {}
EmptyDict == [tag |-> "dict"]

\* next((s for s in trending_stocks if s['symbol'] == quote), {})
price_of(trending_stocks, quote) ==
    LET hits == {n \in DOMAIN trending_stocks : trending_stocks[n].symbol = quote}
    IN  IF hits = {} THEN EmptyDict
        ELSE trending_stocks[CHOOSE n \in hits : \A m \in hits : n <= m]

\* company_info_map.get(quote, {}): in the dict comprehension a later item
\* replaces an earlier one of the same key
info_of(stocks, quote) ==
    LET hits == {n \in DOMAIN stocks : stocks[n].key = quote}
    IN  IF hits = {} THEN EmptyDict
        ELSE stocks[CHOOSE n \in hits : \A m \in hits : n >= m].value

\* base_data = row.to_dict() with 'price' and 'info' added
enriched_row(row, trending_stocks, stocks) ==
    [exchange |-> row.exchange, tradingSymbol |-> row.tradingSymbol,
     brokerName |-> row.brokerName, quote |-> row.quote,
     price |-> price_of(trending_stocks, row.quote),
     info |-> info_of(stocks, row.quote)]

RECURSIVE enrich_inner(_, _, _)
\* Faulty variant of the merge: a row without a price result is left out
enrich_inner(rows, trending_stocks, stocks) ==
    IF rows = << >> THEN << >>
    ELSE (IF price_of(trending_stocks, Head(rows).quote) = EmptyDict
          THEN << >>
          ELSE <<enriched_row(Head(rows), trending_stocks, stocks)>>)
         \o enrich_inner(Tail(rows), trending_stocks, stocks)

\* the loop over df.iterrows()
enrich(rows, trending_stocks, stocks) ==
    [n \in DOMAIN rows |-> enriched_row(rows[n], trending_stocks, stocks)]

\* quotes = df['quote'].tolist()
quotes(rows) == [n \in DOMAIN rows |-> Str(rows[n].quote)]

InitHoldings ==
    /\ now = 0
    /\ cache = [s \in {1} |-> EmptyCache]
    /\ nInst = 1
    /\ inv = IdleInv
    /\ unit = NoUnits
    /\ stored = EmptyCache
    /\ lastGet = NoGet
    /\ call \in {[tag |-> "get_enriched_holdings", pc |-> "awaiting",
                   rows |-> rows, enriched |-> << >>] : rows \in HoldingsFrames}

\* stock_price_map = await self.stock_service.get_multiple_stocks(quotes)
HoldingsPrices ==
    /\ call.pc = "awaiting"
    /\ InvokeBatch(1, "service", "multiple_stocks", quotes(call.rows))

\* company_info_response = await ...get_multiple_company_info(quotes), once
\* the first await has its result; an exception of the first ends the
\* coroutine
HoldingsInfo ==
    /\ call.pc = "awaiting"
    /\ inv[1].pc \in {"returned", "raised"}
    /\ inv[2].pc = "idle"
    /\ IF inv[1].pc = "raised"
       THEN /\ call' = [call EXCEPT !.pc = "raised"]
            /\ UNCHANGED <<now, cache, nInst, inv, unit, stored, lastGet>>
       ELSE InvokeBatch(2, "service", "multiple_company_info", quotes(call.rows))

\* the rest of get_enriched_holdings, once the second await has its result
HoldingsMerge ==
    /\ call.pc = "awaiting"
    /\ inv[2].pc \in {"returned", "raised"}
    /\ call' = IF inv[2].pc = "raised"
               THEN [call EXCEPT !.pc = "raised"]
               ELSE [call EXCEPT
                       !.pc = "returned",
                       !.enriched = enrich(call.rows,
                                           inv[1].result.trending_stocks,
                                           inv[2].result.stocks)]
    /\ UNCHANGED <<now, cache, nInst, inv, unit, stored, lastGet>>

NextHoldings ==
    \/ HoldingsPrices
    \/ HoldingsInfo
    \/ HoldingsMerge
    \/ \E i \in Invocations : \E k \in DOMAIN unit[i] : UnitStart(i, k)
    \/ \E i \in Invocations : \E k \in DOMAIN unit[i] :
          \E beh \in {"ok", "transport"} : UnitFinish(i, k, beh, << >>)
    \/ \E i \in Invocations : AssembleBatch(i)

\* The clock stands still in this specification: the merge does not read it,
\* and every unit is left to finish.
SpecHoldings == InitHoldings /\ [][NextHoldings]_vars

\* The columns of the frame in an entry of the merged list
RowOf(e) ==
    [exchange |-> e.exchange, tradingSymbol |-> e.tradingSymbol,
     brokerName |-> e.brokerName, quote |-> e.quote]

\* C20: get_enriched_holdings is a left join: its output has exactly one entry
\* per holding row, in row order, each carrying the row's own fields; a row
\* whose quote matches no batch price result has price = {}, a row whose
\* quote matches no batch info result has info = {} (a matched row carries a
\* result of its quote), and the call does not fail for lack of a match.
C20_LeftJoin ==
    /\ call.tag = "get_enriched_holdings" => call.pc # "raised"
    /\ (call.tag = "get_enriched_holdings" /\ call.pc = "returned") =>
          LET out == call.enriched
              prices == inv[1].result.trending_stocks
              infos == inv[2].result.stocks
          IN  /\ Len(out) = Len(call.rows)
              /\ \A n \in DOMAIN out :
                    /\ RowOf(out[n]) = call.rows[n]
                    /\ IF \E m \in DOMAIN prices : prices[m].symbol = call.rows[n].quote
                       THEN \E m \in DOMAIN prices :
                               /\ prices[m].symbol = call.rows[n].quote
                               /\ out[n].price = prices[m]
                       ELSE out[n].price = EmptyDict
                    /\ IF \E m \in DOMAIN infos : infos[m].key = call.rows[n].quote
                       THEN \E m \in DOMAIN infos :
                               /\ infos[m].key = call.rows[n].quote
                               /\ out[n].info = infos[m].value
                       ELSE out[n].info = EmptyDict

\* C20 witness: two rows; the first's price fetch failed (no price result) and
\* it has its info, the second's lower-case quote matches no result at all
C20_Witness ==
    /\ call.tag = "get_enriched_holdings"
    /\ call.pc = "returned"
    /\ Len(call.enriched) = 2
    /\ call.enriched[1].price = EmptyDict
    /\ call.enriched[1].info # EmptyDict
    /\ call.enriched[2].price = EmptyDict
    /\ call.enriched[2].info = EmptyDict
    /\ inv[1].result.total_stocks = 1

\* Units of invocation i that are adapter calls (a cached symbol of
\* get_multiple_company_info gets the return_cached coroutine instead)
AdapterUnits(i) == {k \in DOMAIN unit[i] : unit[i][k].st # "cached"}

\* C21: during one holdings enrichment at most one price adapter call and at
\* most one company-info adapter call are submitted for a quote key: two
\* rows with the same quote never have an adapter unit each in the same batch
\* call.
C21_DistinctQuotes ==
    call.tag = "get_enriched_holdings" =>
       \A i \in Invocations : \A k, m \in AdapterUnits(i) :
          (k # m /\ k \in DOMAIN call.rows /\ m \in DOMAIN call.rows)
             => call.rows[k].quote # call.rows[m].quote

----------------------------------------------------------------------------
(* StockService.search_stocks and _calculate_match_score: the free-text   *)
(* search over the fixed reference table.  Both are pure functions of the  *)
(* query; specification SpecSearch applies them to queries of at most      *)
(* MaxLen characters and to the symbols of the table themselves.           *)

\* str.lower() of one character
lower_char(c) ==
    IF \E n \in DOMAIN UpperCase : UpperCase[n] = c
    THEN LowerCase[CHOOSE n \in DOMAIN UpperCase : UpperCase[n] = c]
    ELSE c

\* str.lower()
lower(s) == [n \in DOMAIN s |-> lower_char(s[n])]

\* `sub in s` of two strs
contains(s, sub) ==
    \E n \in 0..(Len(s) - Len(sub)) : SubSeq(s, n + 1, n + Len(sub)) = sub

\* s.startswith(prefix)
startswith(s, prefix) ==
    /\ Len(prefix) <= Len(s)
    /\ SubSeq(s, 1, Len(prefix)) = prefix

RECURSIVE split(_)
\* str.split(): the maximal runs of non-whitespace characters, in order
split(s) ==
    LET t == lstrip(s)
        stops == {n \in DOMAIN t : t[n] \in Whitespace}
        end == IF stops = {} THEN Len(t) + 1
               ELSE CHOOSE n \in stops : \A m \in stops : n <= m
    IN  IF t = << >> THEN << >>
        ELSE <<SubSeq(t, 1, end - 1)>> \o split(SubSeq(t, end, Len(t)))

\* stock_database of search_stocks, in the order of the dict
stock_database ==
    <<
      [symbol |-> <<"A", "A", "P", "L">>,
       name |-> <<"A", "p", "p", "l", "e", " ", "I", "n", "c", ".">>],
      [symbol |-> <<"G", "O", "O", "G", "L">>,
       name |-> <<"A", "l", "p", "h", "a", "b", "e", "t", " ", "I", "n", "c", ".">>],
      [symbol |-> <<"M", "S", "F", "T">>,
       name |-> <<"M", "i", "c", "r", "o", "s", "o", "f", "t", " ", "C", "o", "r", "p", "o", "r", "a", "t", "i", "o", "n">>],
      [symbol |-> <<"A", "M", "Z", "N">>,
       name |-> <<"A", "m", "a", "z", "o", "n", ".", "c", "o", "m", " ", "I", "n", "c", ".">>],
      [symbol |-> <<"T", "S", "L", "A">>,
       name |-> <<"T", "e", "s", "l", "a", " ", "I", "n", "c", ".">>],
      [symbol |-> <<"M", "E", "T", "A">>,
       name |-> <<"M", "e", "t", "a", " ", "P", "l", "a", "t", "f", "o", "r", "m", "s", " ", "I", "n", "c", ".">>],
      [symbol |-> <<"N", "V", "D", "A">>,
       name |-> <<"N", "V", "I", "D", "I", "A", " ", "C", "o", "r", "p", "o", "r", "a", "t", "i", "o", "n">>],
      [symbol |-> <<"N", "F", "L", "X">>,
       name |-> <<"N", "e", "t", "f", "l", "i", "x", " ", "I", "n", "c", ".">>],
      [symbol |-> <<"B", "A", "B", "A">>,
       name |-> <<"A", "l", "i", "b", "a", "b", "a", " ", "G", "r", "o", "u", "p", " ", "H", "o", "l", "d", "i", "n", "g", " ", "L", "t", "d", ".">>],
      [symbol |-> <<"D", "I", "S">>,
       name |-> <<"T", "h", "e", " ", "W", "a", "l", "t", " ", "D", "i", "s", "n", "e", "y", " ", "C", "o", "m", "p", "a", "n", "y">>],
      [symbol |-> <<"P", "Y", "P", "L">>,
       name |-> <<"P", "a", "y", "P", "a", "l", " ", "H", "o", "l", "d", "i", "n", "g", "s", " ", "I", "n", "c", ".">>],
      [symbol |-> <<"A", "D", "B", "E">>,
       name |-> <<"A", "d", "o", "b", "e", " ", "I", "n", "c", ".">>],
      [symbol |-> <<"C", "R", "M">>,
       name |-> <<"S", "a", "l", "e", "s", "f", "o", "r", "c", "e", " ", "I", "n", "c", ".">>],
      [symbol |-> <<"I", "N", "T", "C">>,
       name |-> <<"I", "n", "t", "e", "l", " ", "C", "o", "r", "p", "o", "r", "a", "t", "i", "o", "n">>],
      [symbol |-> <<"A", "M", "D">>,
       name |-> <<"A", "d", "v", "a", "n", "c", "e", "d", " ", "M", "i", "c", "r", "o", " ", "D", "e", "v", "i", "c", "e", "s", " ", "I", "n", "c", ".">>],
      [symbol |-> <<"O", "R", "C", "L">>,
       name |-> <<"O", "r", "a", "c", "l", "e", " ", "C", "o", "r", "p", "o", "r", "a", "t", "i", "o", "n">>],
      [symbol |-> <<"I", "B", "M">>,
       name |-> <<"I", "n", "t", "e", "r", "n", "a", "t", "i", "o", "n", "a", "l", " ", "B", "u", "s", "i", "n", "e", "s", "s", " ", "M", "a", "c", "h", "i", "n", "e", "s", " ", "C", "o", "r", "p", "o", "r", "a", "t", "i", "o", "n">>],
      [symbol |-> <<"U", "B", "E", "R">>,
       name |-> <<"U", "b", "e", "r", " ", "T", "e", "c", "h", "n", "o", "l", "o", "g", "i", "e", "s", " ", "I", "n", "c", ".">>],
      [symbol |-> <<"L", "Y", "F", "T">>,
       name |-> <<"L", "y", "f", "t", " ", "I", "n", "c", ".">>],
      [symbol |-> <<"S", "P", "O", "T">>,
       name |-> <<"S", "p", "o", "t", "i", "f", "y", " ", "T", "e", "c", "h", "n", "o", "l", "o", "g", "y", " ", "S", ".", "A", ".">>],
      [symbol |-> <<"T", "W", "T", "R">>,
       name |-> <<"T", "w", "i", "t", "t", "e", "r", " ", "I", "n", "c", ".">>],
      [symbol |-> <<"S", "N", "A", "P">>,
       name |-> <<"S", "n", "a", "p", " ", "I", "n", "c", ".">>],
      [symbol |-> <<"Z", "M">>,
       name |-> <<"Z", "o", "o", "m", " ", "V", "i", "d", "e", "o", " ", "C", "o", "m", "m", "u", "n", "i", "c", "a", "t", "i", "o", "n", "s", " ", "I", "n", "c", ".">>],
      [symbol |-> <<"S", "L", "A", "C", "K">>,
       name |-> <<"S", "l", "a", "c", "k", " ", "T", "e", "c", "h", "n", "o", "l", "o", "g", "i", "e", "s", " ", "I", "n", "c", ".">>],
      [symbol |-> <<"S", "Q">>,
       name |-> <<"S", "q", "u", "a", "r", "e", " ", "I", "n", "c", ".">>],
      [symbol |-> <<"S", "H", "O", "P">>,
       name |-> <<"S", "h", "o", "p", "i", "f", "y", " ", "I", "n", "c", ".">>]
    >>

RECURSIVE word_score(_, _)
\* the loop over name_words: 20 for a word that contains the query, else 15
\* for a word that starts with it
word_score(query, name_words) ==
    IF name_words = << >> THEN 0
    ELSE (IF contains(Head(name_words), query) THEN 20
          ELSE IF startswith(Head(name_words), query) THEN 15
          ELSE 0)
         + word_score(query, Tail(name_words))

\* StockService._calculate_match_score
calculate_match_score(query, symbol, name) ==
    (IF query = lower(symbol) THEN 100
     ELSE IF contains(lower(symbol), query) THEN 50
     ELSE 0)
    + (IF query = lower(name) THEN 90
       ELSE IF contains(lower(name), query) THEN 30
       ELSE 0)
    + word_score(query, split(lower(name)))

RECURSIVE insert_by_score(_, _)
\* x goes before the first entry whose score is not greater than its own
insert_by_score(x, sorted) ==
    IF sorted = << >> THEN <<x>>
    ELSE IF x.match_score >= Head(sorted).match_score THEN <<x>> \o sorted
    ELSE <<Head(sorted)>> \o insert_by_score(x, Tail(sorted))

RECURSIVE insert_by_score_ascending(_, _)
insert_by_score_ascending(x, sorted) ==
    IF sorted = << >> THEN <<x>>
    ELSE IF x.match_score <= Head(sorted).match_score THEN <<x>> \o sorted
    ELSE <<Head(sorted)>> \o insert_by_score_ascending(x, Tail(sorted))

RECURSIVE sort_ascending(_)
\* Faulty variant of the sort: lowest score first
sort_ascending(results) ==
    IF results = << >> THEN << >>
    ELSE insert_by_score_ascending(Head(results), sort_ascending(Tail(results)))

RECURSIVE sort_by_match_score(_)
\* results.sort(key=lambda x: x['match_score'], reverse=True): descending and
\* stable
sort_by_match_score(results) ==
    IF results = << >> THEN << >>
    ELSE insert_by_score(Head(results), sort_by_match_score(Tail(results)))

\* the condition of the loop over stock_database.items()
search_match(query_lower, entry) ==
    \/ contains(lower(entry.symbol), query_lower)
    \/ contains(lower(entry.name), query_lower)
    \/ \E n \in DOMAIN split(entry.name) :
          contains(lower(split(entry.name)[n]), query_lower)

\* results[:20]
SearchLimit == 20

\* StockService.search_stocks
search_stocks(query) ==
    LET query_lower == lower(query)
        matched == SelectSeq(stock_database,
                             LAMBDA e : search_match(query_lower, e))
        results == [n \in DOMAIN matched |->
                      [symbol |-> matched[n].symbol, name |-> matched[n].name,
                       match_score |-> calculate_match_score(
                                          query_lower, matched[n].symbol,
                                          matched[n].name)]]
        sorted == sort_by_match_score(results)
        stripped == [n \in DOMAIN sorted |->
                       [symbol |-> sorted[n].symbol, name |-> sorted[n].name]]
    IN  [search_results |->
            SubSeq(stripped, 1,
                   IF Len(stripped) < SearchLimit THEN Len(stripped)
                   ELSE SearchLimit),
         total_results |-> Len(results),
         query |-> query]

\* Characters of the queries
QueryChars == {"a", "A", "i", ".", " "}

\* The queries: every str of at most MaxLen characters, and every symbol of
\* the table as written and in lower case
Queries ==
    UNION {[1..n -> QueryChars] : n \in 0..MaxLen}
    \cup {stock_database[n].symbol : n \in DOMAIN stock_database}
    \cup {lower(stock_database[n].symbol) : n \in DOMAIN stock_database}

InitSearch ==
    /\ now = 0
    /\ cache = [s \in {1} |-> EmptyCache]
    /\ nInst = 1
    /\ inv = IdleInv
    /\ unit = NoUnits
    /\ stored = EmptyCache
    /\ lastGet = NoGet
    /\ call \in {[tag |-> "query", query |-> q] : q \in Queries}

\* self._calculate_match_score(query, symbol, name) for an entry of the table
ScoreCall ==
    /\ call.tag = "query"
    /\ \E n \in DOMAIN stock_database :
          call' = [tag |-> "_calculate_match_score", query |-> call.query,
                   symbol |-> stock_database[n].symbol,
                   name |-> stock_database[n].name,
                   score |-> calculate_match_score(call.query,
                                                   stock_database[n].symbol,
                                                   stock_database[n].name)]
    /\ UNCHANGED <<now, cache, nInst, inv, unit, stored, lastGet>>

\* await service.search_stocks(query)
SearchCall ==
    /\ call.tag = "query"
    /\ call' = [tag |-> "search_stocks", query |-> call.query,
                result |-> search_stocks(call.query)]
    /\ UNCHANGED <<now, cache, nInst, inv, unit, stored, lastGet>>

NextSearch ==
    \/ ScoreCall
    \/ SearchCall

SpecSearch == InitSearch /\ [][NextSearch]_vars

\* The words of a name that contain the query, and those that start with it
\* (positions in name.lower().split())
WordsContaining(query, name) ==
    {n \in DOMAIN split(lower(name)) : contains(split(lower(name))[n], query)}

WordsStartingWith(query, name) ==
    {n \in DOMAIN split(lower(name)) : startswith(split(lower(name))[n], query)}

\* The score the rules add up to when every rule that applies counts
SumOfRules(query, symbol, name) ==
    (IF query = lower(symbol) THEN 100
     ELSE IF contains(lower(symbol), query) THEN 50 ELSE 0)
    + (IF query = lower(name) THEN 90
       ELSE IF contains(lower(name), query) THEN 30 ELSE 0)
    + 20 * Cardinality(WordsContaining(query, name))
    + 15 * Cardinality(WordsStartingWith(query, name))

\* C22: the score of (query, symbol, name) is the sum of every rule that
\* applies: 100 for an exact symbol match, else 50 for a substring symbol
\* match; 90 for an exact name match, else 30 for a substring name match;
\* and, for each word of the name, 20 when the word contains the query and 15
\* when the word starts with the query.
C22_ScoreIsSumOfRules ==
    call.tag = "_calculate_match_score" =>
       call.score = SumOfRules(call.query, call.symbol, call.name)

\* The entries of the table with a non-zero score for the lower-cased query
Matches(query) ==
    {n \in DOMAIN stock_database :
        calculate_match_score(lower(query), stock_database[n].symbol,
                              stock_database[n].name) # 0}

\* The score of an entry of the output, computed anew
ScoreOf(query, e) == calculate_match_score(lower(query), e.symbol, e.name)

\* The table entry n as an entry of the output: without a score field
Stripped(n) ==
    [symbol |-> stock_database[n].symbol, name |-> stock_database[n].name]

\* C23: search_stocks returns only table entries with a non-zero score, each
\* once and without its score field, ordered by score descending, an exact
\* symbol match first; the list is cut to the 20 best, and total_results
\* counts all matches before the cut.
C23_SearchStocks ==
    call.tag = "search_stocks" =>
       LET q == call.query
           out == call.result.search_results
           listed == {n \in Matches(q) : \E m \in DOMAIN out : out[m] = Stripped(n)}
       IN  /\ \A m \in DOMAIN out : \E n \in Matches(q) : out[m] = Stripped(n)
           /\ \A m, k \in DOMAIN out : m # k => out[m] # out[k]
           /\ \A m, k \in DOMAIN out :
                 m < k => ScoreOf(q, out[m]) >= ScoreOf(q, out[k])
           /\ \A n \in Matches(q) :
                 lower(stock_database[n].symbol) = lower(q) => out[1] = Stripped(n)
           /\ Len(out) <= SearchLimit
           /\ Len(out) = SearchLimit \/ Len(out) = Cardinality(Matches(q))
           /\ \A n \in Matches(q) \ listed : \A m \in DOMAIN out :
                 ScoreOf(q, out[m]) >= ScoreOf(q, Stripped(n))
           /\ call.result.total_results = Cardinality(Matches(q))

\* C23 witness: the query "a" matches 21 entries with three different
\* scores; 20 are returned, "Meta Platforms Inc." first
C23_Witness ==
    /\ call.tag = "search_stocks"
    /\ call.query = <<"a">>
    /\ call.result.total_results = 21
    /\ Len(call.result.search_results) = SearchLimit
    /\ call.result.search_results[1].symbol = <<"M", "E", "T", "A">>
    /\ call.result.search_results[3].symbol = AAPL

----------------------------------------------------------------------------
(* MarketService.find_ticker and search_stock: the lookup in the           *)
(* reference table MarketService.df and the delegation to                  *)
(* StockService().get_company_info.  Specification SpecFind calls          *)
(* search_stock once; the StockService it creates is instance 1 and the    *)
(* delegated call is invocation 1.                                         *)

\* MarketService.df: rows of (company, ticker) as initialize_csv leaves them
reference_table ==
    <<[company |-> <<"T", "a", "t", "a", " ", "S", "t", "e", "e", "l", " ",
                     "L", "t", "d", ".">>,
       ticker |-> <<"T", "A", "T", "A", "S", "T", "E", "E", "L", ".", "N", "S">>],
      [company |-> <<"I", "T", "C", " ", "L", "t", "d", ".">>,
       ticker |-> <<"I", "T", "C", ".", "N", "S">>]>>

\* re.compile(pat) succeeds; of the characters of FindChars only "(" makes a
\* pattern invalid (an unterminated group)
re_compiles(pat) == \A n \in DOMAIN pat : pat[n] # "("

\* re.search(pat, s) finds a match, for a pattern of literal characters and
\* ".", which matches any character
re_search(pat, s) ==
    \E n \in 0..(Len(s) - Len(pat)) :
       \A k \in DOMAIN pat : pat[k] = "." \/ pat[k] = s[n + k]

\* match.iloc[0]['ticker'] of the rows of a selection
first_ticker(rows) ==
    Str(reference_table[CHOOSE n \in rows : \A m \in rows : n <= m].ticker)

\* MarketService.find_ticker; Series.str.contains takes its argument as a
\* regular expression
find_ticker(query) ==
    LET query_lower == lower(strip(query))
        exact == {n \in DOMAIN reference_table :
                     lower(reference_table[n].ticker) = query_lower}
        named == {n \in DOMAIN reference_table :
                     re_search(query_lower, lower(reference_table[n].company))}
    IN  IF exact # {} THEN Return(first_ticker(exact))
        ELSE IF ~re_compiles(query_lower) THEN Raise("re.error")
        ELSE IF named # {} THEN Return(first_ticker(named))
        ELSE Return(NoneValue)

\* {"error": "Stock not found."}
StockNotFound == [tag |-> "dict", error |-> "Stock not found."]

\* {"error": f"yfinance error: {str(e)}"}
YfinanceError == [tag |-> "dict", error |-> "yfinance error"]

\* Characters of the queries
FindChars == {"t", "T", ".", "(", " "}

\* The queries: every str of at most MaxLen characters, and the tickers of
\* the table as written and in lower case
FindQueries ==
    UNION {[1..n -> FindChars] : n \in 0..MaxLen}
    \cup {reference_table[n].ticker : n \in DOMAIN reference_table}
    \cup {lower(reference_table[n].ticker) : n \in DOMAIN reference_table}

InitFind ==
    /\ now = 0
    /\ cache = [s \in {1} |-> EmptyCache]
    /\ nInst = 1
    /\ inv = IdleInv
    /\ unit = NoUnits
    /\ stored = EmptyCache
    /\ lastGet = NoGet
    /\ call \in {[tag |-> "search_stock", pc |-> "called", query |-> q,
                   result |-> None] : q \in FindQueries}

\* search_stock up to its return or its await, when find_ticker returns: no
\* ticker is answered at once, a ticker goes to
\* StockService().get_company_info(ticker)
SearchStockFound ==
    /\ call.tag = "search_stock"
    /\ call.pc = "called"
    /\ find_ticker(call.query).tag = "return"
    /\ IF find_ticker(call.query).value = NoneValue
       THEN /\ call' = [call EXCEPT !.pc = "returned", !.result = StockNotFound]
            /\ UNCHANGED <<now, cache, nInst, inv, unit, stored, lastGet>>
       ELSE InvokeSingle(1, "service", "company_info", find_ticker(call.query).value)

\* find_ticker is called outside the try: its exception leaves search_stock
SearchStockRaise ==
    /\ call.tag = "search_stock"
    /\ call.pc = "called"
    /\ find_ticker(call.query).tag = "raise"
    /\ call' = [call EXCEPT !.pc = "raised",
                            !.result = [tag |-> "exc",
                                        type |-> find_ticker(call.query).exc]]
    /\ UNCHANGED <<now, cache, nInst, inv, unit, stored, lastGet>>

\* return await service.get_company_info(ticker), or the except branch
SearchStockReturn ==
    /\ call.tag = "search_stock"
    /\ call.pc = "called"
    /\ inv[1].pc \in {"returned", "raised"}
    /\ call' = [call EXCEPT
                  !.pc = "returned",
                  !.result = IF inv[1].pc = "returned" THEN inv[1].result
                             ELSE YfinanceError]
    /\ UNCHANGED <<now, cache, nInst, inv, unit, stored, lastGet>>

NextFind ==
    \/ SearchStockFound
    \/ SearchStockRaise
    \/ SearchStockReturn
    \/ UnitStart(1, 1)
    \/ \E beh \in Behaviours : UnitFinish(1, 1, beh, << >>)
    \/ DeliverSingle(1)
    \/ TimeoutSingle(1)
    \/ Tick

SpecFind == InitFind /\ [][NextFind]_vars

\* The ticker the query resolves to: an exact ticker match first, otherwise
\* the first company whose name has the query as a substring, otherwise none
Resolved(query) ==
    LET q == lower(strip(query))
        exact == {n \in DOMAIN reference_table :
                     lower(reference_table[n].ticker) = q}
        named == {n \in DOMAIN reference_table :
                     contains(lower(reference_table[n].company), q)}
    IN  IF exact # {} THEN first_ticker(exact)
        ELSE IF named # {} THEN first_ticker(named)
        ELSE NoneValue

\* C24: search_stock resolves the query by exact ticker match first and only
\* otherwise by substring match on the company name; when neither matches it
\* returns the 'not found' result without raising and without any adapter
\* call, and when a match exists it delegates to get_company_info for the
\* matched ticker.
C24_SearchStock ==
    call.tag = "search_stock" =>
       /\ call.pc # "raised"
       /\ Resolved(call.query) = NoneValue =>
             /\ inv[1].pc = "idle"
             /\ unit[1] = << >>
             /\ call.pc = "returned" => call.result = StockNotFound
       /\ Resolved(call.query) # NoneValue =>
             /\ inv[1].pc # "idle" =>
                   /\ inv[1].op = "company_info"
                   /\ inv[1].args = <<Resolved(call.query)>>
             /\ call.pc = "returned" => inv[1].pc \in {"returned", "raised"}

----------------------------------------------------------------------------
(* SecurityMiddleWare.dispatch in front of the routers.  Specification     *)
(* SpecAuth receives one request: call holds its path, its Authorization   *)
(* header, whether dispatch handed it to call_next (passed) and the        *)
(* answer; the handler of GET /api/stock/AAPL/price is invocation 1, via   *)
(* "rest".                                                                 *)

\* The paths SecurityMiddleWare.dispatch lets through
ExemptPaths == {"/docs", "/redoc", "/openapi.json", "/", "/health",
                "/api/auth/token"}

\* The paths of the requests: the exempt ones, the price route, the /secure
\* route, and /health/ which is not in the list
PricePath == "/api/stock/AAPL/price"
Paths == ExemptPaths \cup {PricePath, "/secure", "/health/"}

Bearer == <<"B", "e", "a", "r", "e", "r">>
Basic == <<"B", "a", "s", "i", "c">>

\* The Authorization header of the request: absent, or a str
Authorizations ==
    {NoneValue, Str(<< >>), Str(Bearer), Str(Bearer \o <<" ">>),
     Str(Bearer \o <<" ", "t">>), Str(lower(Bearer) \o <<" ", "t">>),
     Str(Basic \o <<" ", "t">>), Str(<<"t">>)}

\* str.partition(" "): the part before the first space and the part after it
partition(s) ==
    LET stops == {n \in DOMAIN s : s[n] = " "}
        at == IF stops = {} THEN Len(s) + 1
              ELSE CHOOSE n \in stops : \A m \in stops : n <= m
    IN  [head |-> SubSeq(s, 1, at - 1), tail |-> SubSeq(s, at + 1, Len(s))]

\* Faulty variant of the scheme: every request is let through
security_lenient(authorization) == Return(None)

\* security(request), the HTTPBearer scheme with auto_error: the header must
\* be "<scheme> <credentials>" with both parts non-empty and the scheme
\* "bearer" in any case; otherwise it raises HTTPException
security(authorization) ==
    IF authorization = NoneValue THEN Raise("HTTPException")
    ELSE LET p == partition(authorization.chars)
         IN  IF p.head = << >> \/ p.tail = << >> THEN Raise("HTTPException")
             ELSE IF lower(p.head) # lower(Bearer) THEN Raise("HTTPException")
             ELSE Return(None)

InitAuth ==
    /\ now = 0
    /\ cache = [s \in {1} |-> EmptyCache]
    /\ nInst = 1
    /\ inv = IdleInv
    /\ unit = NoUnits
    /\ stored = EmptyCache
    /\ lastGet = NoGet
    /\ call \in {[tag |-> "request", pc |-> "received", path |-> path,
                   authorization |-> a, passed |-> FALSE, status |-> 0] :
                    path \in Paths, a \in Authorizations}

\* SecurityMiddleWare.dispatch up to its return or call_next
Dispatch ==
    /\ call.tag = "request"
    /\ call.pc = "received"
    /\ call' = IF call.path \in ExemptPaths
               THEN [call EXCEPT !.pc = "call_next", !.passed = TRUE]
               ELSE IF security(call.authorization).tag = "raise"
               THEN [call EXCEPT !.pc = "answered", !.status = 401]
               ELSE [call EXCEPT !.pc = "call_next", !.passed = TRUE]
    /\ UNCHANGED <<now, cache, nInst, inv, unit, stored, lastGet>>

\* Routes whose handler calls no StockService: the exempt ones and /secure
\* (which depends on the scheme itself); /health/ is answered with a
\* redirect, the token route with 500 when no token was obtained
HandleOther ==
    /\ call.tag = "request"
    /\ call.pc = "call_next"
    /\ call.path # PricePath
    /\ \E failed \in BOOLEAN :
          call' = [call EXCEPT
                     !.pc = "answered",
                     !.status = IF call.path = "/health/" THEN 307
                                ELSE IF call.path = "/secure" /\
                                        security(call.authorization).tag = "raise"
                                THEN 403
                                ELSE IF call.path = "/api/auth/token" /\ failed
                                THEN 500
                                ELSE 200]
    /\ UNCHANGED <<now, cache, nInst, inv, unit, stored, lastGet>>

\* The price route: dependencies=[Depends(security)] of the router, then the
\* handler calls get_stock_price on a new StockService
HandlePrice ==
    /\ call.tag = "request"
    /\ call.pc = "call_next"
    /\ call.path = PricePath
    /\ IF security(call.authorization).tag = "raise"
       THEN /\ call' = [call EXCEPT !.pc = "answered", !.status = 403]
            /\ UNCHANGED <<now, cache, nInst, inv, unit, stored, lastGet>>
       ELSE InvokeSingle(1, "rest", "price", Str(AAPL))

\* The handler's answer leaves through the middlewares
Respond ==
    /\ call.tag = "request"
    /\ call.pc = "call_next"
    /\ inv[1].pc \in {"returned", "raised"}
    /\ call' = [call EXCEPT !.pc = "answered", !.status = inv[1].http]
    /\ UNCHANGED <<now, cache, nInst, inv, unit, stored, lastGet>>

NextAuth ==
    \/ Dispatch
    \/ HandleOther
    \/ HandlePrice
    \/ Respond
    \/ UnitStart(1, 1)
    \/ \E beh \in Behaviours : UnitFinish(1, 1, beh, << >>)
    \/ DeliverSingle(1)
    \/ TimeoutSingle(1)
    \/ Tick

SpecAuth == InitAuth /\ [][NextAuth]_vars

\* The header carries Bearer credentials: "Bearer <token>" with a token
CarriesBearer(authorization) ==
    /\ authorization # NoneValue
    /\ \E n \in DOMAIN authorization.chars :
          /\ lower(SubSeq(authorization.chars, 1, n - 1)) = lower(Bearer)
          /\ authorization.chars[n] = " "
          /\ n < Len(authorization.chars)

\* C25: a request to a path other than the exempt ones that carries no Bearer
\* credentials is answered 401 and its handler is never invoked: no
\* operation is called, no unit is submitted, no service object or cache is
\* touched; a request to an exempt path is passed through whatever its
\* header.
C25_Unauthenticated ==
    call.tag = "request" =>
       /\ (call.path \notin ExemptPaths /\ ~CarriesBearer(call.authorization)) =>
             /\ ~call.passed
             /\ call.pc \in {"received", "answered"}
             /\ call.pc = "answered" => call.status = 401
             /\ inv = IdleInv
             /\ unit = NoUnits
             /\ nInst = 1
             /\ cache = [s \in {1} |-> EmptyCache]
       /\ (call.path \in ExemptPaths /\ call.pc # "received") =>
             /\ call.passed
             /\ call.status # 401

\* C25 witness: the price route without an Authorization header, answered
\* 401
C25_Witness ==
    /\ call.tag = "request"
    /\ call.pc = "answered"
    /\ call.path = PricePath
    /\ call.authorization = NoneValue
    /\ call.status = 401
    /\ inv[1].pc = "idle"

----------------------------------------------------------------------------
(* Specification SpecOps: one invocation on one StockService, of any       *)
(* operation, single-symbol or batch; the provider answers or fails.       *)

NextOps ==
    \/ \E data_type \in SingleOps, symbol \in SingleArgs :
          InvokeSingle(1, "service", data_type, symbol)
    \/ \E op \in StockBatchOps, symbols \in RequestLists :
          InvokeBatch(1, "service", op, symbols)
    \/ \E op \in MarketBatchOps : InvokeBatch(1, "service", op, << >>)
    \/ \E k \in DOMAIN unit[1] : UnitStart(1, k)
    \/ \E k \in DOMAIN unit[1], beh \in {"ok", "transport"} :
          UnitFinish(1, k, beh, << >>)
    \/ \E k \in DOMAIN unit[1] : TimeoutUnit(1, k)
    \/ DeliverSingle(1)
    \/ TimeoutSingle(1)
    \/ AssembleBatch(1)
    \/ Tick

SpecOps == Init /\ [][NextOps]_vars

\* The list positions an invocation was asked for
Positions(i) ==
    CASE inv[i].op \in SingleOps -> 1
      [] inv[i].op \in StockBatchOps -> Len(inv[i].args)
      [] inv[i].op = "trending" -> Len(trending_symbols)
      [] inv[i].op = "indices" -> Len(market_indices)
      [] OTHER -> 0

\* The units of an invocation are those it submitted when it was called, and
\* a unit only moves on: none is added, none goes back to the queue, and one
\* that finished or was cancelled is not started again
NoResubmission ==
    \A i \in Invocations :
       /\ inv[i].pc # "idle" => DOMAIN unit'[i] = DOMAIN unit[i]
       /\ \A k \in DOMAIN unit[i] :
             k \in DOMAIN unit'[i] =>
                /\ unit'[i][k].st = "queued" => unit[i][k].st = "queued"
                /\ unit'[i][k].st = "running" =>
                      unit[i][k].st \in {"queued", "running"}
                /\ unit[i][k].aw = "timeout" => unit'[i][k].aw = "timeout"

\* C26: no operation retries: an invocation of a single-symbol operation
\* submits at most one unit, an invocation of a batch operation at most one
\* unit per requested list position, and after a unit failed or timed out no
\* further unit is submitted for it within the invocation.
C26_NoRetry ==
    /\ [](\A i \in Invocations : Len(unit[i]) <= Positions(i))
    /\ [][NoResubmission]_vars

\* C26 witness: get_multiple_company_info was called with two symbols and
\* returned; one unit's call had failed, the other had timed out, and there
\* are still the two units
C26_Witness ==
    /\ inv[1].op = "multiple_company_info"
    /\ inv[1].pc = "returned"
    /\ Len(inv[1].args) = 2
    /\ Len(unit[1]) = 2
    /\ unit[1][1].st = "finished"
    /\ unit[1][1].beh = "transport"
    /\ unit[1][2].aw = "timeout"

----------------------------------------------------------------------------
(* Specification SpecInfo: the two company-info paths of one StockService, *)
(* one call of get_company_info("AAPL") and one of                        *)
(* get_multiple_company_info, in either order and possibly overlapping.    *)

NextInfo ==
    \/ \E i \in Invocations :
          /\ \A j \in Invocations : inv[j].op # "company_info"
          /\ InvokeSingle(i, "service", "company_info", Str(AAPL))
    \/ \E i \in Invocations, symbols \in RequestLists :
          /\ \A j \in Invocations : inv[j].op # "multiple_company_info"
          /\ InvokeBatch(i, "service", "multiple_company_info", symbols)
    \/ \E i \in Invocations : \E k \in DOMAIN unit[i] : UnitStart(i, k)
    \/ \E i \in Invocations : \E k \in DOMAIN unit[i] :
          \E beh \in {"ok", "transport"} : UnitFinish(i, k, beh, << >>)
    \/ \E i \in Invocations : DeliverSingle(i)
    \/ \E i \in Invocations : TimeoutSingle(i)
    \/ \E i \in Invocations : \E k \in DOMAIN unit[i] : TimeoutUnit(i, k)
    \/ \E i \in Invocations : AssembleBatch(i)
    \/ Tick

SpecInfo == Init /\ [][NextInfo]_vars

\* j was called on i's service object after i had returned, less than
\* cache_timeout after i stored its entries
ReusesFrom(i, j) ==
    /\ i # j
    /\ inv[j].inst = inv[i].inst
    /\ inv[i].pc = "returned"
    /\ i \in inv[j].after
    /\ inv[j].pc # "idle"
    /\ inv[j].awaitedAt - inv[i].doneAt < cache_timeout

\* The positions of a get_multiple_company_info whose awaitable raised
RaisedPositions(j) == {k \in DOMAIN unit[j] : Outcome(unit[j][k]).tag = "raise"}

\* C27: company-info entries are reused between the single and the multi-info
\* path of one service instance: after get_company_info(s) succeeded, a
\* get_multiple_company_info containing s within the TTL submits no adapter
\* call for s and counts s as successful; after get_multiple_company_info
\* fetched s successfully, a get_company_info(s) within the TTL is served
\* from the cache without an adapter call.
C27_InfoReuse ==
    \A i, j \in Invocations :
       /\ (/\ ReusesFrom(i, j)
           /\ inv[i].op = "company_info"
           /\ inv[j].op = "multiple_company_info")
          => \A k \in DOMAIN inv[j].syms :
                inv[j].syms[k] = inv[i].syms[1] =>
                   /\ unit[j][k].st = "cached"
                   /\ inv[j].pc # "raised"
                   /\ inv[j].pc = "returned" =>
                         /\ inv[j].result.stocks[k].key = inv[i].syms[1]
                         /\ inv[j].result.stocks[k].value =
                               CompanyInfoSchema(inv[i].result)
                         /\ k \notin RaisedPositions(j)
                         /\ inv[j].result.failed_requests =
                               Cardinality(RaisedPositions(j))
                         /\ inv[j].result.successful_requests =
                               Len(inv[j].syms) - Cardinality(RaisedPositions(j))
       /\ (/\ ReusesFrom(i, j)
           /\ inv[i].op = "multiple_company_info"
           /\ inv[j].op = "company_info")
          => \A k \in DOMAIN unit[i] :
                (/\ inv[i].syms[k] = inv[j].syms[1]
                 /\ unit[i][k].st = "finished"
                 /\ unit[i][k].aw = "pending"
                 /\ unit[i][k].beh = "ok")
                => /\ inv[j].pc = "returned"
                   /\ inv[j].hit
                   /\ unit[j] = << >>
                   /\ \E m \in DOMAIN unit[i] :
                         /\ inv[i].syms[m] = inv[j].syms[1]
                         /\ unit[i][m].res.tag = "return"
                         /\ inv[j].result = model_dump(unit[i][m].res.value)

\* C27 witness: get_company_info("AAPL") fetched and returned, then
\* get_multiple_company_info(["AAPL", "MSFT"]) within the TTL took AAPL from
\* the cache, fetched MSFT and returned both as successful
C27_Witness ==
    /\ inv[1].op = "company_info"
    /\ inv[1].pc = "returned"
    /\ ~inv[1].hit
    /\ inv[2].op = "multiple_company_info"
    /\ inv[2].pc = "returned"
    /\ 1 \in inv[2].after
    /\ inv[2].syms = <<AAPL, MSFT>>
    /\ unit[2][1].st = "cached"
    /\ unit[2][2].st = "finished"
    /\ unit[2][2].beh = "ok"
    /\ inv[2].result.successful_requests = 2

\* Unit k of invocation i is executing, or has executed, its adapter call
Entered(u) == u.st \in {"running", "finished"}

\* A step in which an adapter call is entered is a worker of the unit's pool
\* taking it from the queue, and a step in which the provider is reached is
\* the step of a unit running on a worker; the coroutines do not move in
\* either
OnWorkerOnly ==
    \A i \in Invocations : \A k \in DOMAIN unit'[i] :
       /\ (Entered(unit'[i][k]) /\ ~(k \in DOMAIN unit[i] /\ Entered(unit[i][k])))
          => /\ k \in DOMAIN unit[i]
             /\ CanStart(i, k)
             /\ Cardinality(Running(inv[i].inst)) < max_workers
             /\ inv' = inv
       /\ (unit'[i][k].beh # "" /\ ~(k \in DOMAIN unit[i] /\ unit[i][k].beh # ""))
          => /\ k \in DOMAIN unit[i]
             /\ unit[i][k].st = "running"
             /\ inv' = inv

\* C28: every call to the quote-source adapter executes on a worker of the
\* executor, none on the request-handling path: a call is entered only when
\* a worker takes its unit from the queue, the provider is reached only by a
\* running unit, and a payload that was not taken from the cache is the one
\* the invocation's unit handed back.
C28_AdapterOnWorker ==
    /\ [][OnWorkerOnly]_vars
    /\ [](\A i \in Invocations :
            (inv[i].op \in SingleOps /\ inv[i].pc = "returned" /\ ~inv[i].hit)
            => /\ Len(unit[i]) = 1
               /\ unit[i][1].st = "finished"
               /\ inv[i].result.fetch = <<i, 1>>)

\* C28 witness: get_historical_data fetched on a worker and returned its
\* payload
C28_Witness ==
    /\ inv[1].op = "history"
    /\ inv[1].pc = "returned"
    /\ ~inv[1].hit
    /\ unit[1][1].st = "finished"
    /\ unit[1][1].beh = "ok"
    /\ inv[1].result.fetch = <<1, 1>>

\* The units of invocation i that are executing
RunningOf(i) == {k \in DOMAIN unit[i] : unit[i][k].st = "running"}

\* The submission leaves every unit in the queue and the caller at its await;
\* a queued unit starts only in a step that finds a worker of its pool free
QueuedUntilFree ==
    \A i \in Invocations :
       /\ (inv[i].pc = "idle" /\ inv'[i].pc = "awaiting" /\ inv'[i].op \in BatchOps)
          => \A k \in DOMAIN unit'[i] : unit'[i][k].st \in {"queued", "cached"}
       /\ \A k \in DOMAIN unit[i] :
             (unit[i][k].st = "queued" /\ k \in DOMAIN unit'[i]
                /\ unit'[i][k].st = "running")
             => Cardinality(Running(inv[i].inst)) < max_workers

\* C29: within one service instance, when a fan-out submits more than
\* max_workers units at once, at most max_workers of them execute at any
\* moment; the others are queued without blocking the caller, and each
\* starts only when a worker is free.
C29_FanOutBounded ==
    /\ [](\A s \in 1..nInst : Cardinality(Running(s)) <= max_workers)
    /\ [][QueuedUntilFree]_vars

\* C29 witness: three units were submitted at once; two are executing, the
\* third is in the queue
C29_Witness ==
    /\ inv[1].pc = "awaiting"
    /\ Len(unit[1]) > max_workers
    /\ Cardinality(RunningOf(1)) = max_workers
    /\ \E k \in DOMAIN unit[1] : unit[1][k].st = "queued"

----------------------------------------------------------------------------
(* Specification SpecFrame: one operation on a StockService whose cache   *)
(* holds a price entry of AAPL, live or expired, or nothing.               *)

\* The cache when the batch operation is called: empty, or holding the entry
\* an earlier get_stock_price("AAPL") left, stored just now or cache_timeout
\* ago
PriceCaches ==
    {EmptyCache} \cup
    {set_cache(EmptyCache, get_cache_key(AAPL, "price", key_kwargs("price")),
               fetch_stock_data(AAPL, TRUE, "ok", <<1>>, <<0, 0>>).value, t) :
        t \in {0, 0 - cache_timeout}}

InitFrame ==
    /\ now = 0
    /\ cache \in {[s \in {1} |-> c] : c \in PriceCaches}
    /\ nInst = 1
    /\ inv = IdleInv
    /\ unit = NoUnits
    /\ stored = EmptyCache
    /\ lastGet = NoGet
    /\ call = NoCall

SpecFrame == InitFrame /\ [][NextOps]_vars

\* The batch operations that have nothing to do with the cache
CacheFreeOps == {"multiple_stocks", "trending", "indices"}

\* The payloads in the result of one of them
ResultItems(i) ==
    IF inv[i].op = "indices" THEN inv[i].result.market_indices
    ELSE inv[i].result.trending_stocks

\* C30: get_multiple_stocks, get_trending_stocks and get_market_indices
\* neither read nor write the cache: no step of such an operation changes
\* the cache (an expired entry stays where it is), none of its awaitables is
\* a cached value, and every payload of its result is the one a unit of this
\* invocation fetched, whatever price entry the cache holds.
C30_BatchLeavesCache ==
    /\ [][\A i \in Invocations :
             inv'[i].op \in CacheFreeOps => cache' = cache]_vars
    /\ [](\A i \in Invocations :
            inv[i].op \in CacheFreeOps =>
               /\ ~inv[i].looked
               /\ \A k \in DOMAIN unit[i] : unit[i][k].st # "cached"
               /\ inv[i].pc = "returned" =>
                     \A n \in DOMAIN ResultItems(i) :
                        LET x == ResultItems(i)[n] IN
                        /\ x.fetch[1] = i
                        /\ x.fetch[2] \in DOMAIN unit[i]
                        /\ unit[i][x.fetch[2]].res = Return(x))

\* C30 witness: get_multiple_stocks(["AAPL"]) returned a freshly fetched
\* payload although the cache holds a live price entry of AAPL, and the
\* cache is as it was
C30_Witness ==
    /\ inv[1].op = "multiple_stocks"
    /\ inv[1].pc = "returned"
    /\ inv[1].syms = <<AAPL>>
    /\ Len(inv[1].result.trending_stocks) = 1
    /\ inv[1].result.trending_stocks[1].fetch = <<1, 1>>
    /\ cache[1] \in PriceCaches \ {EmptyCache}
    /\ cache[1][get_cache_key(AAPL, "price", key_kwargs("price"))].timestamp = 0

----------------------------------------------------------------------------
(* Specification SpecRace: two calls of get_stock_price or                *)
(* get_company_info on one StockService object, in any order and          *)
(* overlapping or not, with a provider that answers or fails and a clock  *)
(* that lets the calls time out and the entries expire.                   *)

RaceOps == {"price", "company_info"}

NextRace ==
    \/ \E i \in Invocations, data_type \in RaceOps, symbol \in SingleArgs :
          InvokeSingle(i, "service", data_type, symbol)
    \/ \E i \in Invocations : UnitStart(i, 1)
    \/ \E i \in Invocations, beh \in {"ok", "transport"} :
          UnitFinish(i, 1, beh, << >>)
    \/ \E i \in Invocations : DeliverSingle(i)
    \/ \E i \in Invocations : TimeoutSingle(i)
    \/ Tick

SpecRace == Init /\ [][NextRace]_vars

\* The cache key of single-symbol invocation i
KeyOf(i) == get_cache_key(inv[i].syms[1], inv[i].op, key_kwargs(inv[i].op))

\* Invocations i and j of the same operation for the same key on the same
\* service object both missed the cache and neither had completed when the
\* other was called
Overlapping(i, j) ==
    /\ i # j
    /\ inv[i].pc # "idle" /\ inv[j].pc # "idle"
    /\ inv[i].op \in SingleOps /\ inv[j].op = inv[i].op
    /\ inv[i].inst = inv[j].inst
    /\ unit[i] # << >> /\ unit[j] # << >>
    /\ KeyOf(i) = KeyOf(j)
    /\ i \notin inv[j].after /\ j \notin inv[i].after

\* The entries of cache c for the symbol and operation of invocation i
EntriesFor(c, i) ==
    {k \in DOMAIN c : k[1] = inv[i].syms[1] /\ k[2] = inv[i].op}

\* Invocation i returns the payload its unit fetched and writes it, stamped
\* with the present time, over whatever entry its key has
WritesOwnEntry ==
    \A i \in Invocations :
        (inv[i].pc = "awaiting" /\ inv'[i].pc = "returned" /\ inv[i].op \in SingleOps)
        => /\ inv'[i].result.fetch = <<i, 1>>
           /\ cache'[inv[i].inst][KeyOf(i)] =
                 [data |-> inv'[i].result, timestamp |-> now]

\* C31: two overlapping invocations of one single-symbol operation for one
\* key on a cold cache of one service object both submit an adapter call;
\* once both have returned, the cache holds exactly one entry for the key,
\* written by the invocation that completed last (its payload, its time of
\* completion), and each invocation has returned the payload it fetched.
C31_LastWriterWins ==
    /\ [](\A i, j \in Invocations :
            (/\ Overlapping(i, j)
             /\ inv[i].pc = "returned" /\ inv[j].pc = "returned")
            => LET c == cache[inv[i].inst] IN
               /\ EntriesFor(c, i) = {KeyOf(i)}
               /\ inv[i].result.fetch = <<i, 1>>
               /\ inv[j].result.fetch = <<j, 1>>
               /\ c[KeyOf(i)].data \in {inv[i].result, inv[j].result}
               /\ inv[i].doneAt >= inv[j].doneAt
                  => c[KeyOf(i)].timestamp = inv[i].doneAt
               /\ inv[i].doneAt > inv[j].doneAt
                  => c[KeyOf(i)].data = inv[i].result)
    /\ [][WritesOwnEntry]_vars

\* Both calls were on their way together; the one called first returned
\* last, and its payload replaced the other's
C31_Witness ==
    /\ Overlapping(1, 2)
    /\ inv[1].pc = "returned" /\ inv[2].pc = "returned"
    /\ inv[1].doneAt > inv[2].doneAt
    /\ cache[1][KeyOf(1)].data.fetch = <<1, 1>>
    /\ cache[1][KeyOf(1)].timestamp > 0

----------------------------------------------------------------------------
(* The cache and the threads.  A step of a worker thread takes a unit     *)
(* from queued to running or from running to finished; every other step   *)
(* is a step of the thread that runs the event loop.                      *)

WorkerStep ==
    \E i \in Invocations : \E k \in DOMAIN unit[i] :
        /\ k \in DOMAIN unit'[i]
        /\ \/ unit[i][k].st = "queued" /\ unit'[i][k].st = "running"
           \/ unit[i][k].st = "running" /\ unit'[i][k].st = "finished"

\* What a unit hands back is a function of its symbol and of the provider
FetchedOnly ==
    \A i \in Invocations : \A k \in DOMAIN unit[i] :
        (/\ k \in DOMAIN unit'[i]
         /\ unit[i][k].st = "running" /\ unit'[i][k].st = "finished")
        => unit'[i][k].res \in
              {UnitResult(i, k, beh, cap) : beh \in Behaviours, cap \in MarketCaps}

CacheOnLoopOnly ==
    /\ WorkerStep => cache' = cache /\ inv' = inv
    /\ cache' # cache =>
          /\ ~WorkerStep
          /\ Cardinality({i \in Invocations : inv'[i] # inv[i]}) = 1
    /\ FetchedOnly

\* C32: the cache of a StockService is read and written only by the thread
\* that runs the event loop: no step of a worker changes it or depends on
\* it, and every step that changes it is the step of exactly one invocation
\* between two of its awaits, so a lookup's check-then-delete and a store
\* never interleave.
C32_CacheOnLoopThread == [][CacheOnLoopOnly]_vars

\* A worker is still inside an adapter call while the cache holds what the
\* event loop stored
C32_Witness ==
    \E k \in DOMAIN unit[1] :
        /\ unit[1][k].st = "running"
        /\ inv[1].pc = "returned"
        /\ cache[1] # EmptyCache

----------------------------------------------------------------------------
(* Late results.                                                          *)

\* The wait on the unit of single-symbol invocation i has timed out
TimedOut(i) ==
    /\ inv[i].op \in SingleOps
    /\ unit[i] # << >>
    /\ unit[i][1].aw = "timeout"

\* The payloads the caches hold
Cached == UNION {{cache[s][key].data : key \in DOMAIN cache[s]} : s \in DOMAIN cache}

\* C33: once a single-symbol operation has timed out, its adapter call may
\* still finish on the worker, but what it fetched is dropped: the operation
\* has raised, no cache entry holds the payload and no invocation returns it.
C33_LateResultDiscarded ==
    \A i \in Invocations :
        TimedOut(i) =>
            /\ inv[i].pc = "raised"
            /\ \A d \in Cached : d.fetch # <<i, 1>>
            /\ \A j \in Invocations :
                  inv[j].pc = "returned" => inv[j].result.fetch # <<i, 1>>

\* The abandoned call of invocation 1 came back with a payload after the
\* timeout, and invocation 2 has been served since
C33_Witness ==
    /\ TimedOut(1)
    /\ unit[1][1].st = "finished"
    /\ unit[1][1].res.tag = "return"
    /\ unit[1][1].late
    /\ inv[2].pc = "returned"

----------------------------------------------------------------------------
(* The timeout of a unit of get_multiple_company_info.                    *)

InfoBatch(i) == inv[i].op = "multiple_company_info" /\ inv[i].pc # "idle"

\* The wait on a unit times out timeout_seconds after the call submitted it,
\* queued or running; a cancelled unit stays cancelled; a running unit whose
\* wait timed out leaves its worker only by finishing its adapter call
TimeoutSteps ==
    \A i \in Invocations : \A k \in DOMAIN unit[i] :
        (InfoBatch(i) /\ k \in DOMAIN unit'[i]) =>
            /\ (unit[i][k].aw = "pending" /\ unit'[i][k].aw = "timeout")
                  => /\ now - inv[i].awaitedAt = timeout_seconds
                     /\ unit[i][k].st = "queued" => unit'[i][k].st = "cancelled"
                     /\ unit[i][k].st = "running" => unit'[i][k].st = "running"
            /\ unit[i][k].st = "cancelled" => unit'[i][k] = unit[i][k]
            /\ (unit[i][k].st = "running" /\ unit[i][k].aw = "timeout")
                  => \/ unit'[i][k].st = "running"
                     \/ unit'[i][k].st = "finished" /\ unit'[i][k].beh # ""

\* C34: the timeout of a unit of get_multiple_company_info runs from its
\* submission, whether or not a worker has taken it: a unit still queued
\* when it fires is cancelled, its adapter call never starts and its symbol
\* is reported as failed; a unit running when it fires stays on its worker
\* until the adapter call returns.
C34_TimeoutFromSubmission ==
    /\ [](\A i \in Invocations : \A k \in DOMAIN unit[i] :
            InfoBatch(i) =>
                /\ unit[i][k].aw = "timeout"
                      => /\ unit[i][k].st \in {"cancelled", "running", "finished"}
                         /\ now - inv[i].awaitedAt >= timeout_seconds
                         /\ inv[i].pc = "returned"
                               => inv[i].result.stocks[k].value
                                     = error_schema(inv[i].syms[k])
                /\ unit[i][k].st = "cancelled"
                      => /\ unit[i][k].aw = "timeout"
                         /\ unit[i][k].beh = ""
                         /\ unit[i][k].res = Pending
                /\ (unit[i][k].st = "running" /\ unit[i][k].aw = "timeout")
                      => <<i, k>> \in Running(inv[i].inst))
    /\ [][TimeoutSteps]_vars

\* Three uncached symbols on two workers: the third unit was cancelled in the
\* queue and reported as failed, while the first is still on its worker
C34_Witness ==
    /\ InfoBatch(1)
    /\ Len(unit[1]) = 3
    /\ unit[1][3].st = "cancelled"
    /\ unit[1][1].st = "running" /\ unit[1][1].aw = "timeout"
    /\ inv[1].pc = "returned"
    /\ inv[1].result.failed_requests = 3

----------------------------------------------------------------------------
(* Failures and the cache.                                                *)

\* The provider call of single-symbol invocation i raised, or the wait on it
\* timed out
FetchFailed(i) ==
    /\ inv[i].op \in SingleOps
    /\ unit[i] # << >>
    /\ \/ unit[i][1].beh \in {"transport", "broken"}
       \/ unit[i][1].aw = "timeout"

\* C35: a failed fetch never populates the cache: no entry holds what a
\* single-symbol operation made of a provider call that failed or timed
\* out, so a later request for the key is not served from it.
C35_FailureNotCached ==
    \A i \in Invocations :
        FetchFailed(i) =>
            /\ \A d \in Cached : d.fetch # <<i, 1>>
            /\ \A j \in Invocations :
                  (inv[j].pc = "returned" /\ inv[j].hit)
                  => inv[j].result.fetch # <<i, 1>>

----------------------------------------------------------------------------
(* The counters of get_multiple_company_info.                             *)

\* C36: a get_multiple_company_info call over n valid symbols answers with
\* successful_requests + failed_requests = n = total_stocks = len(stocks),
\* and the i-th entry of stocks is keyed by the i-th requested symbol,
\* normalized; whatever the mix of cache hits, fetches, failures and
\* timeouts.
C36_InfoCounters ==
    \A i \in Invocations :
        (inv[i].op = "multiple_company_info" /\ inv[i].pc = "returned") =>
            LET r == inv[i].result
                n == Len(inv[i].args)
            IN  /\ r.successful_requests + r.failed_requests = n
                /\ r.total_stocks = n
                /\ Len(r.stocks) = n
                /\ \A k \in 1..n :
                      /\ r.stocks[k].key = validate_symbol(inv[i].args[k]).value
                      /\ r.stocks[k].value.symbol = r.stocks[k].key

\* Three symbols: the first served from the cache, the second timed out, and
\* the answer counts two successes and one failure
C36_Witness ==
    \E i \in Invocations :
        /\ inv[i].op = "multiple_company_info" /\ inv[i].pc = "returned"
        /\ Len(inv[i].args) = 3
        /\ unit[i][1].st = "cached"
        /\ unit[i][2].aw = "timeout"
        /\ inv[i].result.successful_requests = 2
        /\ inv[i].result.failed_requests = 1

----------------------------------------------------------------------------
(* Specification SpecQuote: BrokerService.fetch_holdings on the rows the  *)
(* brokers report.  A cell of a reported row is << >> when the broker     *)
(* left the column out (NaN in the frame) and <<v>> when it holds v.      *)

INDIGRID == <<"I", "N", "D", "I", "G", "R", "I", "D">>
UNKNOWN == <<"U", "N", "K", "N", "O", "W", "N">>

RawExchanges == {<< >>, <<"NSE">>, <<"ALL">>, <<"BSE">>, <<"nse">>}
RawSymbols ==
    {<< >>, << <<"T">> >>, <<INDIGRID>>,
     << <<"i", "n", "d", "i", "g", "r", "i", "d">> >>}

\* The holdings the brokers report: one to MaxRows rows
RawHoldings ==
    UNION {[1..n -> [exchange : RawExchanges, tradingSymbol : RawSymbols]] :
            n \in 1..MaxRows}

\* df[column].fillna(default), on one cell
fillna(cell, default) == IF cell = << >> THEN default ELSE cell[1]

\* fetch_holdings from the frame on: the defaults, then the quote column
fetch_holdings(holdings) ==
    [k \in DOMAIN holdings |->
        LET row == [exchange |-> fillna(holdings[k].exchange, "UNKNOWN"),
                    tradingSymbol |-> fillna(holdings[k].tradingSymbol, UNKNOWN)]
        IN  [exchange |-> row.exchange, tradingSymbol |-> row.tradingSymbol,
             quote |-> quote_of(row)]]

InitQuote ==
    /\ now = 0
    /\ cache = [s \in {1} |-> EmptyCache]
    /\ nInst = 1
    /\ inv = IdleInv
    /\ unit = NoUnits
    /\ stored = EmptyCache
    /\ lastGet = NoGet
    /\ \E holdings \in RawHoldings :
          call = [tag |-> "fetch_holdings", pc |-> "called",
                  holdings |-> holdings, df |-> << >>]

FetchHoldings ==
    /\ call.pc = "called"
    /\ call' = [call EXCEPT !.pc = "returned",
                            !.df = fetch_holdings(call.holdings)]
    /\ UNCHANGED <<now, cache, nInst, inv, unit, stored, lastGet>>

NextQuote == FetchHoldings

SpecQuote == InitQuote /\ [][NextQuote]_vars

\* The exchange and the trading symbol of reported row k, as the quote rule
\* sees them
ExchangeOf(k) ==
    IF call.holdings[k].exchange = << >> THEN "UNKNOWN"
    ELSE call.holdings[k].exchange[1]
SymbolOf(k) ==
    IF call.holdings[k].tradingSymbol = << >> THEN UNKNOWN
    ELSE call.holdings[k].tradingSymbol[1]

\* C37: the quote key of a holding row is its trading symbol followed by
\* ".NS" exactly when its exchange is NSE or ALL and the symbol is not
\* INDIGRID, and the trading symbol followed by ".BO" in every other case,
\* a missing exchange (defaulted to UNKNOWN) included.
C37_QuoteSuffix ==
    call.pc = "returned" =>
        /\ DOMAIN call.df = DOMAIN call.holdings
        /\ \A k \in DOMAIN call.df :
              LET q == call.df[k].quote
                  n == Len(SymbolOf(k))
                  suffix == SubSeq(q, n + 1, Len(q))
              IN  /\ Len(q) = n + 3
                  /\ SubSeq(q, 1, n) = SymbolOf(k)
                  /\ suffix \in {<<".", "N", "S">>, <<".", "B", "O">>}
                  /\ suffix = <<".", "N", "S">>
                        <=> /\ ExchangeOf(k) \in {"NSE", "ALL"}
                            /\ SymbolOf(k) # INDIGRID

\* INDIGRID held on NSE next to a row without an exchange
C37_Witness ==
    /\ call.pc = "returned"
    /\ Len(call.df) = 2
    /\ call.holdings[1] = [exchange |-> <<"NSE">>, tradingSymbol |-> <<INDIGRID>>]
    /\ call.df[1].quote = INDIGRID \o <<".", "B", "O">>
    /\ call.holdings[2].exchange = << >>
    /\ call.df[2].quote = <<"T", ".", "B", "O">>

----------------------------------------------------------------------------
(* Specification SpecEndpoints: one request to GET /stock/multiple_stocks *)
(* or to GET /market/trending, from the handler's first line to its       *)
(* answer.  call holds the request (route, the symbols query parameter)   *)
(* and the answer's status; invocation 1 is the service call the handler  *)
(* makes, on the service object built for the request (object 1, new and  *)
(* with an empty cache).                                                   *)

RECURSIVE split_on(_, _)
\* s.split(sep): the parts between the separators, empty parts included
split_on(s, sep) ==
    IF \E n \in DOMAIN s : s[n] = sep
    THEN LET n == CHOOSE m \in DOMAIN s :
                    s[m] = sep /\ \A l \in 1..(m - 1) : s[l] # sep
         IN  <<SubSeq(s, 1, n - 1)>> \o split_on(SubSeq(s, n + 1, Len(s)), sep)
    ELSE <<s>>

\* [s.strip() for s in symbols.split(',') if s.strip()]
symbol_list(symbols) ==
    LET parts == split_on(symbols, ",")
        stripped == [k \in DOMAIN parts |-> strip(parts[k])]
        NonEmpty(part) == part # << >>
    IN  SelectSeq(stripped, NonEmpty)

\* The except clauses of a handler, for an exception raised inside its try:
\* a StockAPIException answers its status_code, any other exception (an
\* HTTPException raised in the try and pydantic's ValidationError included)
\* answers 500
handler_except(exc) ==
    IF exc \in StockAPIExceptions THEN status_code(exc) ELSE 500

\* TrendingStocksResponse(**result): the three fields are required, others
\* are ignored
TrendingStocksResponse(result) ==
    IF {"trending_stocks", "total_stocks", "market_status"} \subseteq DOMAIN result
    THEN Return(result) ELSE Raise("ValidationError")

\* The characters of the symbols parameter
SymbolsChars == {"A", ",", " "}

SymbolsParameters ==
    UNION {[1..n -> SymbolsChars] : n \in 0..MaxLen}

InitEndpoints ==
    /\ now = 0
    /\ cache = [s \in {1} |-> EmptyCache]
    /\ nInst = 1
    /\ inv = IdleInv
    /\ unit = NoUnits
    /\ stored = EmptyCache
    /\ lastGet = NoGet
    /\ call \in {[tag |-> "request", route |-> "multiple_stocks",
                   symbols |-> p, pc |-> "received", status |-> 0] :
                    p \in SymbolsParameters}
                \cup {[tag |-> "request", route |-> "trending",
                       symbols |-> << >>, pc |-> "received", status |-> 0]}

\* stock_controller.get_multiple_stocks up to its await, or to its answer
\* when it raises before
GetMultipleStocks ==
    /\ call.pc = "received"
    /\ call.route = "multiple_stocks"
    /\ inv[1].pc = "idle"
    /\ LET l == symbol_list(call.symbols) IN
       IF l = << >>
       THEN /\ call' = [call EXCEPT !.pc = "responded",
                                    !.status = handler_except("HTTPException")]
            /\ UNCHANGED <<now, cache, nInst, inv, unit, stored, lastGet>>
       ELSE InvokeBatch(1, "service", "multiple_stocks",
                        [k \in DOMAIN l |-> Str(l[k])])

\* market_controller.get_trending_stocks up to its await
GetTrending ==
    /\ call.pc = "received"
    /\ call.route = "trending"
    /\ InvokeBatch(1, "service", "trending", << >>)

\* The rest of either handler: TrendingStocksResponse(**result) and the
\* except clauses
AnswerEndpoint ==
    /\ call.pc = "received"
    /\ inv[1].pc \in {"returned", "raised"}
    /\ LET outcome == IF inv[1].pc = "raised"
                      THEN Raise(inv[1].result.type)
                      ELSE TrendingStocksResponse(inv[1].result)
       IN  call' = [call EXCEPT !.pc = "responded",
                                !.status = IF outcome.tag = "return" THEN 200
                                           ELSE handler_except(outcome.exc)]
    /\ UNCHANGED <<now, cache, nInst, inv, unit, stored, lastGet>>

NextEndpoints ==
    \/ GetMultipleStocks
    \/ GetTrending
    \/ \E k \in DOMAIN unit[1] : UnitStart(1, k)
    \/ \E k \in DOMAIN unit[1], beh \in {"ok", "transport"} :
          UnitFinish(1, k, beh, << >>)
    \/ AssembleBatch(1)
    \/ AnswerEndpoint

SpecEndpoints == InitEndpoints /\ [][NextEndpoints]_vars

\* The symbols parameter holds nothing but commas and blanks
NoSymbol(symbols) ==
    \A n \in DOMAIN symbols : symbols[n] \in Whitespace \cup {","}

\* C38: a GET /stock/multiple_stocks request whose symbols parameter holds no
\* non-empty symbol after splitting on commas and trimming is answered with
\* status 400, and no adapter call is submitted for it.
C38_NoSymbolsIs400 ==
    (/\ call.route = "multiple_stocks"
     /\ NoSymbol(call.symbols))
    => /\ unit[1] = << >>
       /\ call.pc = "responded" => call.status = 400

\* C39: whenever get_trending_stocks returns normally, GET /market/trending
\* answers with a success response: what the service returns has the fields
\* the response model requires.
C39_TrendingAnswers ==
    (/\ call.route = "trending"
     /\ inv[1].pc = "returned"
     /\ call.pc = "responded")
    => /\ TrendingStocksResponse(inv[1].result).tag = "return"
       /\ call.status = 200

====
